---- MODULE Spec2Model ----
(***************************************************************************)
(* Buffer pool manager and LRU replacer of BusTub                          *)
(* (src/buffer/lru_replacer.cpp and src/buffer/buffer_pool_manager.cpp,    *)
(* both in src/unnamed/part_000) and the B+tree index on top of them       *)
(* (src/storage/index/b_plus_tree.cpp and                                  *)
(* src/storage/page/b_plus_tree_internal_page.cpp), and the sequential     *)
(* scan, insert, delete and aggregation executors (src/execution).         *)
(*                                                                         *)
(* The specifications share the variables and the actions:                 *)
(*   Spec          the buffer pool manager driven by all its public calls  *)
(*                 and by callers that write the pages they have pinned;   *)
(*   SpecPin       the same pool driven by new, fetch and unpin only;      *)
(*   SpecDelete    the same pool driven by new, fetch, unpin and delete;   *)
(*   SpecScenario  a pool of two frames whose callers fetch and unpin the  *)
(*                 pages 1..3 of an existing file;                         *)
(*   SpecEvict     that pool with callers that also write the pages;       *)
(*   SpecLRU       the replacer alone, driven by Victim, Pin and Unpin;    *)
(*   SpecTree      the B+tree on a pool with a frame for every page,       *)
(*                 driven by Insert, Remove and GetValue;                  *)
(*   SpecRoundTrip that tree filled with the keys 1..n and emptied again;  *)
(*   SpecTreeWide  the round trip on a tree with wider internal pages;     *)
(*   SpecTreeSmall the B+tree on a pool of three frames;                   *)
(*   SpecLeafSplit a tree with leaf_max_size 4 filled with 1..5 in         *)
(*                 ascending order and emptied again;                      *)
(*   SpecBorrow    a tree with leaf_max_size 3, filled and then reduced;   *)
(*   SpecTreeFull  the B+tree on a pool it shares with a user who keeps    *)
(*                 pages pinned;                                           *)
(*   SpecConcurrent two threads that insert disjoint keys into one tree,   *)
(*                 interleaved where a thread holds no latch;              *)
(*   SpecQuery     a table scanned by a SeqScanExecutor or aggregated by   *)
(*                 an AggregationExecutor;                                 *)
(*   SpecModify    a table with or without an index, changed by an         *)
(*                 InsertExecutor or a DeleteExecutor.                     *)
(*                                                                         *)
(* The tree methods are operators from a state of the tree and its pool to *)
(* the set of their outcomes; an outcome carries the sequence of the pool  *)
(* and latch calls and of the page writes made (events), over which the    *)
(* latching and pinning claims are stated.  The index iterator is modelled *)
(* the same way.  An executor is a record (exec) that its Init and Next    *)
(* transform; the table heap is the sequence of its slots.                 *)
(***************************************************************************)
EXTENDS Integers, Sequences, FiniteSets, TLC

\* ------------------------------------------------------------------------
\* Bounds and program constants
\* ------------------------------------------------------------------------

\* pool_size given to the BufferPoolManager constructor
PoolSize == 1

\* largest page id AllocatePage hands out
MaxPageId == 1

\* cap on a frame's pin_count_ (the int is unbounded in the code)
MaxPin == 2

\* page contents are abstracted to one value; 0 is zeroed memory
MaxData == 1

\* number of frame ids handed to the replacer when it is driven alone
LruNumPages == 3

\* cap on how far below zero avlbPages may run (Pin never checks it)
MaxDeficit == 1

\* cap on the length of free_list_ (DeletePageImpl can push without end)
MaxFree == PoolSize + 1

\* pool_size of the seed scenario
ScenarioPoolSize == 2

\* leaf_max_size given to the BPlusTree constructor
LeafMaxSize == 1

\* internal_max_size given to the BPlusTree constructor
InternalMaxSize == 3

INVALID_PAGE_ID == -1

\* the nullptr returned by FetchPageImpl / NewPageImpl
NoFrame == -1

\* the calls of the pool_size = 2 scenario, in order
Scenario ==
  << <<"fetch", 1>>, <<"fetch", 1>>, <<"unpin", 1>>, <<"unpin", 1>>,
     <<"fetch", 2>>, <<"fetch", 2>>, <<"fetch", 3>> >>

ScenarioPages == {Scenario[i][2] : i \in 1 .. Len(Scenario)}

\* the page ids NewPage can allocate
PageIds == 0 .. MaxPageId

\* every page id of the disk file
PageUniverse == PageIds \cup ScenarioPages

DataVals == 0 .. MaxData

LruFrames == 0 .. (LruNumPages - 1)

\* every frame id a specification hands to the replacer
ReplacerIds == (0 .. (PoolSize - 1)) \cup (0 .. (ScenarioPoolSize - 1)) \cup LruFrames

VARIABLES
  pool_size,     \* pool_size_
  pages,         \* pages_[frame]: page_id_, pin_count_, is_dirty_, data_
  page_table,    \* page_table_: page id -> frame id (a partial map)
  free_list,     \* free_list_: sequence of frame ids
  lruList,       \* LRUReplacer::lruList, front first: <<[frame_id, isPin]>>
  lruMap,        \* LRUReplacer::lruMap: frame id -> position of the node its
                 \* iterator points to (0: the node was destroyed)
  avlbPages,     \* LRUReplacer::avlbPages
  disk,          \* the disk manager's pages
  next_page_id,  \* the disk manager's allocation counter
  last,          \* the last call and what it returned
  net,           \* history: per page id, fetches/news minus successful unpins
                 \* since the page was last loaded
  scen,          \* history: progress through the pool_size = 2 scenario
  unpinSeq,      \* history: frames in the order an ideal LRU would evict them
  root_page_id,  \* BPlusTree::root_page_id_
  leaf_max_size,      \* BPlusTree::leaf_max_size_
  internal_max_size,  \* BPlusTree::internal_max_size_
  fault,         \* the process has dereferenced a null or wild pointer
  mirror,        \* history: the value each key was last inserted with
  rwlatch,       \* pages_[frame].rwlatch_: its readers and its writer
  threads,       \* per thread, the tree operation it is in and where
  exec           \* the table, its index, the plan and the executor that runs it

vars == <<pool_size, pages, page_table, free_list, lruList, lruMap, avlbPages, disk,
          next_page_id, last, net, scen, unpinSeq, root_page_id, leaf_max_size,
          internal_max_size, fault, mirror, rwlatch, threads, exec>>

\* the variables of the B+tree, of the executors and of their history
treeVars == <<root_page_id, leaf_max_size, internal_max_size, fault, mirror,
              rwlatch, threads, exec>>

\* no executor has been constructed
NoExecutor == [kind |-> "none"]

\* ------------------------------------------------------------------------
\* Small helpers
\* ------------------------------------------------------------------------

SeqToSet(s) == {s[i] : i \in 1 .. Len(s)}

\* The two unordered_maps are total functions over their key universe; a key
\* that is not in the map carries Absent.
Absent == -1

MapHas(m, k) == k \in DOMAIN m /\ m[k] # Absent

MapKeys(m) == {k \in DOMAIN m : m[k] # Absent}

\* std::unordered_map::erase(key)
MapErase(m, k) == IF k \in DOMAIN m THEN [m EXCEPT ![k] = Absent] ELSE m

\* std::unordered_map::emplace(key, value): an existing key keeps its value
MapEmplace(m, k, v) == IF MapHas(m, k) THEN m ELSE [m EXCEPT ![k] = v]

\* std::unordered_map::operator[](key) = value
MapAssign(m, k, v) == [m EXCEPT ![k] = v]

\* ------------------------------------------------------------------------
\* LRUReplacer
\* ------------------------------------------------------------------------

Replacer == [lruList |-> lruList, lruMap |-> lruMap, avlbPages |-> avlbPages]

EmptyReplacer ==
  [lruList |-> <<>>, lruMap |-> [k \in ReplacerIds |-> Absent], avlbPages |-> 0]

\* lruList.push_front(e): every live iterator now sits one position later
LruPushFront(r, e) ==
  [r EXCEPT !.lruList = <<e>> \o @,
            !.lruMap = [k \in DOMAIN @ |-> IF @[k] <= 0 THEN @[k] ELSE @[k] + 1]]

\* lruList.pop_back(): iterators to the destroyed node dangle
LruPopBack(r) ==
  LET n == Len(r.lruList)
  IN  [r EXCEPT !.lruList = SubSeq(@, 1, n - 1),
                !.lruMap = [k \in DOMAIN @ |-> IF @[k] = n THEN 0 ELSE @[k]]]

LruFail(r) == [ok |-> FALSE, frame |-> NoFrame, r |-> r]

\* LRUReplacer::Victim: the set of outcomes [ok, frame, r].  back() of an
\* empty list is undefined: any flag and any frame id may be read.
LruVictim(r, ids) ==
  IF r.avlbPages <= 0 THEN {LruFail(r)}
  ELSE IF r.lruList = <<>>
    THEN {LruFail(r)} \cup
         {[ok |-> TRUE, frame |-> f,
           r |-> [r EXCEPT !.lruMap = MapErase(@, f), !.avlbPages = @ - 1]]
            : f \in ids}
  ELSE LET back == r.lruList[Len(r.lruList)]
           popped == LruPopBack(r)
       IN  IF back.isPin THEN {LruFail(r)}
           ELSE {[ok |-> TRUE, frame |-> back.frame_id,
                  r |-> [popped EXCEPT !.lruMap = MapErase(@, back.frame_id),
                                       !.avlbPages = @ - 1]]}

\* LRUReplacer::Pin: the set of resulting replacers.  The node popped is the
\* back of the list, whatever frame it holds.
LruPin(r, frame_id, ids) ==
  IF ~MapHas(r.lruMap, frame_id) THEN {r}
  ELSE LET temps == IF r.lruList = <<>> THEN ids
                    ELSE {r.lruList[Len(r.lruList)].frame_id}
           popped == IF r.lruList = <<>> THEN r ELSE LruPopBack(r)
           pushed == LruPushFront(popped, [frame_id |-> frame_id, isPin |-> TRUE])
       IN  {[pushed EXCEPT !.lruMap = MapAssign(@, temp, 1),
                           !.avlbPages = @ - 1] : temp \in temps}

\* LRUReplacer::Unpin: the set of resulting replacers.  Reading isPin through
\* a dangling iterator may give either value.
LruUnpin(r, frame_id) ==
  IF ~MapHas(r.lruMap, frame_id)
    THEN LET pushed == LruPushFront(r, [frame_id |-> frame_id, isPin |-> FALSE])
         IN  {[pushed EXCEPT !.lruMap = MapEmplace(@, frame_id, 1),
                             !.avlbPages = @ + 1]}
  ELSE IF r.lruMap[frame_id] = 0
    THEN {r, [r EXCEPT !.avlbPages = @ + 1]}
  ELSE IF r.lruList[r.lruMap[frame_id]].isPin
    THEN {[r EXCEPT !.lruList[r.lruMap[frame_id]].isPin = FALSE,
                    !.avlbPages = @ + 1]}
  ELSE {r}

\* LRUReplacer::Size
LruSize(r) == r.avlbPages

\* ------------------------------------------------------------------------
\* Disk manager (external to this code; its four calls as the buffer pool
\* uses them)
\* ------------------------------------------------------------------------

\* DiskManager::ReadPage: the content last written, zeroes otherwise
DiskRead(d, page_id) == d[page_id]

\* DiskManager::WritePage
DiskWrite(d, page_id, data) == [d EXCEPT ![page_id] = data]

\* DiskManager::AllocatePage: the next unused page id
DiskAllocate(next) == [page_id |-> next, next |-> next + 1]

\* DiskManager::DeallocatePage: releases the id, keeps the bytes
DiskDeallocate(d, page_id) == d

\* ------------------------------------------------------------------------
\* BufferPoolManager
\* ------------------------------------------------------------------------

\* the buffer pool's fields as one value, so that the Impl methods compose
Bpm ==
  [pool_size |-> pool_size, pages |-> pages, page_table |-> page_table, free_list |-> free_list,
   replacer |-> Replacer, disk |-> disk, next_page_id |-> next_page_id]

\* Page::ResetMemory zeroes data_ and nothing else
ResetMemory(pg) == [pg EXCEPT !.data = 0]

\* BufferPoolManager::FlushPageImpl: [ok, s]
FlushPageImpl(s, page_id) ==
  IF page_id = INVALID_PAGE_ID THEN [ok |-> FALSE, s |-> s]
  ELSE IF ~MapHas(s.page_table, page_id) THEN [ok |-> FALSE, s |-> s]
  ELSE LET write_frame_id == s.page_table[page_id]
       IN  [ok |-> TRUE,
            s |-> [s EXCEPT
                     !.disk = DiskWrite(@, page_id, s.pages[write_frame_id].data),
                     !.pages[write_frame_id].is_dirty = FALSE]]

\* The values `page_id_t replace_page_id;` can hold when it is read without
\* having been assigned: any page id in the table, or one that is not.
Uninitialized == PageUniverse \cup {INVALID_PAGE_ID}

\* FetchPageImpl lines 122-137 (NewPageImpl lines 200-215 repeat them): take
\* a frame from the free list, else from the replacer; the set of outcomes
\* [ok, frame, s].  replace_page_id is assigned only for a dirty victim.
TakeFrame(s) ==
  IF s.free_list # <<>>
    THEN {[ok |-> TRUE, frame |-> Head(s.free_list),
           s |-> [s EXCEPT !.free_list = Tail(@)]]}
  ELSE UNION {
    IF ~v.ok THEN {[ok |-> FALSE, frame |-> NoFrame, s |-> s]}
    ELSE LET s1 == [s EXCEPT !.replacer = v.r]
         IN  IF s1.pages[v.frame].is_dirty
               THEN LET replace_page_id == s1.pages[v.frame].page_id
                        s2 == FlushPageImpl(s1, replace_page_id).s
                    IN  {[ok |-> TRUE, frame |-> v.frame,
                          s |-> [s2 EXCEPT !.page_table =
                                   MapErase(@, replace_page_id)]]}
               ELSE {[ok |-> TRUE, frame |-> v.frame,
                      s |-> [s1 EXCEPT !.page_table =
                               MapErase(@, replace_page_id)]]
                       : replace_page_id \in Uninitialized}
    : v \in LruVictim(s.replacer, 0 .. (s.pool_size - 1))}

\* BufferPoolManager::FetchPageImpl: the set of outcomes [frame, s]
FetchPageImpl(s, page_id) ==
  IF MapHas(s.page_table, page_id)
    THEN {[frame |-> s.page_table[page_id],
           s |-> [s EXCEPT !.pages[s.page_table[page_id]].pin_count = @ + 1]]}
  ELSE {IF ~t.ok THEN [frame |-> NoFrame, s |-> s]
        ELSE [frame |-> t.frame,
              s |-> [t.s EXCEPT
                       !.page_table = MapEmplace(@, page_id, t.frame),
                       !.pages[t.frame] =
                          [page_id |-> page_id, pin_count |-> 1,
                           is_dirty |-> FALSE,
                           data |-> DiskRead(t.s.disk, page_id)]]]
        : t \in TakeFrame(s)}

\* UnpinDirty with the flag assigned instead of OR-ed
UnpinDirtyAssigned(old_dirty, is_dirty) == is_dirty

\* what UnpinPageImpl leaves in is_dirty_
UnpinDirty(old_dirty, is_dirty) == old_dirty \/ is_dirty

\* BufferPoolManager::UnpinPageImpl: the set of outcomes [ok, s]
UnpinPageImpl(s, page_id, is_dirty) ==
  IF ~MapHas(s.page_table, page_id) THEN {[ok |-> FALSE, s |-> s]}
  ELSE LET unpin_frame_id == s.page_table[page_id]
           s1 == [s EXCEPT
                    !.pages[unpin_frame_id].is_dirty = UnpinDirty(@, is_dirty),
                    !.pages[unpin_frame_id].pin_count = @ - 1]
       IN  IF s.pages[unpin_frame_id].pin_count <= 0
             THEN {[ok |-> FALSE, s |-> s]}
           ELSE IF s1.pages[unpin_frame_id].pin_count = 0
             THEN {[ok |-> TRUE, s |-> [s1 EXCEPT !.replacer = r]]
                     : r \in LruUnpin(s1.replacer, unpin_frame_id)}
           ELSE {[ok |-> TRUE, s |-> s1]}

\* NewPageImpl that calls AllocatePage before it looks for a frame
NewPageImplAllocatesFirst(s) ==
  {IF ~t.ok THEN [frame |-> NoFrame,
                  s |-> [s EXCEPT !.next_page_id = DiskAllocate(@).next]]
   ELSE LET a == DiskAllocate(t.s.next_page_id)
        IN  [frame |-> t.frame,
             s |-> [t.s EXCEPT
                      !.next_page_id = a.next,
                      !.pages[t.frame] =
                         [page_id |-> a.page_id, pin_count |-> 1,
                          is_dirty |-> FALSE, data |-> 0],
                      !.page_table = MapEmplace(@, a.page_id, t.frame)]]
   : t \in TakeFrame(s)}

\* BufferPoolManager::NewPageImpl: the set of outcomes [frame, s]
NewPageImpl(s) ==
  {IF ~t.ok THEN [frame |-> NoFrame, s |-> s]
   ELSE LET a == DiskAllocate(t.s.next_page_id)
        IN  [frame |-> t.frame,
             s |-> [t.s EXCEPT
                      !.next_page_id = a.next,
                      !.pages[t.frame] =
                         [page_id |-> a.page_id, pin_count |-> 1,
                          is_dirty |-> FALSE, data |-> 0],
                      !.page_table = MapEmplace(@, a.page_id, t.frame)]]
   : t \in TakeFrame(s)}

\* DeleteRefused that lets a page with a single pin go
DeleteRefusedAboveOne(pin_count) == pin_count > 1

\* the test of DeletePageImpl line 241: someone is using the page
DeleteRefused(pin_count) == pin_count # 0

\* BufferPoolManager::DeletePageImpl: [ok, s]
DeletePageImpl(s, page_id) ==
  IF ~MapHas(s.page_table, page_id) THEN [ok |-> TRUE, s |-> s]
  ELSE LET del_frame_id == s.page_table[page_id]
       IN  IF DeleteRefused(s.pages[del_frame_id].pin_count)
             THEN [ok |-> FALSE, s |-> s]
           ELSE [ok |-> TRUE,
                 s |-> [s EXCEPT
                          !.disk = DiskDeallocate(@, page_id),
                          !.pages[del_frame_id] = ResetMemory(@),
                          !.free_list = Append(@, del_frame_id)]]

RECURSIVE FlushFrames(_, _)
\* the loop of FlushAllPagesImpl from frame i on
FlushFrames(s, i) ==
  IF i >= s.pool_size THEN s
  ELSE FlushFrames(FlushPageImpl(s, s.pages[i].page_id).s, i + 1)

\* BufferPoolManager::FlushAllPagesImpl
FlushAllPagesImpl(s) == FlushFrames(s, 0)

\* ------------------------------------------------------------------------
\* History variables
\* ------------------------------------------------------------------------

\* net fetch/unpin count of a page after one more call; a count that leaves
\* 0 .. MaxPin stays at -1 until the page is loaded again
NetStep(n, d) == IF n < 0 \/ n + d < 0 \/ n + d > MaxPin THEN -1 ELSE n + d

\* progress through Scenario after the call <<op, page_id>>; -1 once the run
\* has left the scenario
ScenStep(n, op, page_id) ==
  IF n >= 0 /\ n < Len(Scenario) /\ Scenario[n + 1] = <<op, page_id>>
    THEN n + 1 ELSE -1

\* ------------------------------------------------------------------------
\* The buffer pool manager driven by its callers
\* ------------------------------------------------------------------------

Install(s) ==
  /\ pages' = s.pages
  /\ page_table' = s.page_table
  /\ free_list' = s.free_list
  /\ lruList' = s.replacer.lruList
  /\ lruMap' = s.replacer.lruMap
  /\ avlbPages' = s.replacer.avlbPages
  /\ disk' = s.disk
  /\ next_page_id' = s.next_page_id
  /\ UNCHANGED pool_size

\* BufferPoolManager::BufferPoolManager over a disk file of `allocated` pages
Constructed(size, allocated) ==
  /\ exec = NoExecutor
  /\ pool_size = size
  /\ pages = [f \in 0 .. (size - 1) |->
               [page_id |-> INVALID_PAGE_ID, pin_count |-> 0,
                is_dirty |-> FALSE, data |-> 0]]
  /\ page_table = [p \in PageUniverse |-> Absent]
  /\ free_list = [i \in 1 .. size |-> i - 1]
  /\ lruList = EmptyReplacer.lruList
  /\ lruMap = EmptyReplacer.lruMap
  /\ avlbPages = EmptyReplacer.avlbPages
  /\ disk = [p \in PageUniverse |-> 0]
  /\ next_page_id = allocated
  /\ last = [op |-> "init", ok |-> TRUE, frame |-> NoFrame]
  /\ net = [p \in PageUniverse |-> 0]
  /\ scen = 0
  /\ unpinSeq = <<>>
  /\ root_page_id = INVALID_PAGE_ID
  /\ leaf_max_size = LeafMaxSize
  /\ internal_max_size = InternalMaxSize
  /\ fault = FALSE
  /\ mirror = <<>>
  /\ rwlatch = [f \in 0 .. (size - 1) |-> [readers |-> 0, writer |-> FALSE]]
  /\ threads = <<>>

Init == Constructed(PoolSize, 0)

\* FetchPage: callers fetch pages the disk file holds
FetchPageCall(page_id) ==
  /\ page_id < next_page_id
  /\ MapHas(page_table, page_id) => pages[page_table[page_id]].pin_count < MaxPin
  /\ \E o \in FetchPageImpl(Bpm, page_id) :
       /\ Install(o.s)
       /\ last' = [op |-> "fetch", ok |-> o.frame # NoFrame, frame |-> o.frame]

NewPageCall ==
  /\ next_page_id <= MaxPageId
  /\ \E o \in NewPageImpl(Bpm) :
       /\ Install(o.s)
       /\ last' = [op |-> "new", ok |-> o.frame # NoFrame, frame |-> o.frame]

UnpinPageCall(page_id, is_dirty) ==
  \E o \in UnpinPageImpl(Bpm, page_id, is_dirty) :
    /\ Install(o.s)
    /\ last' = [op |-> "unpin", ok |-> o.ok, frame |-> NoFrame]

FlushPageCall(page_id) ==
  LET o == FlushPageImpl(Bpm, page_id)
  IN  /\ Install(o.s)
      /\ last' = [op |-> "flush", ok |-> o.ok, frame |-> NoFrame]

DeletePageCall(page_id) ==
  /\ Len(free_list) < MaxFree
  /\ LET o == DeletePageImpl(Bpm, page_id)
     IN  /\ Install(o.s)
         /\ last' = [op |-> "delete", ok |-> o.ok, frame |-> NoFrame]

FlushAllPagesCall ==
  /\ Install(FlushAllPagesImpl(Bpm))
  /\ last' = [op |-> "flush_all", ok |-> TRUE, frame |-> NoFrame]

\* a caller that holds a pin writes the page through the Page* it was given
WriteDataCall(frame_id, data) ==
  /\ pages[frame_id].pin_count > 0
  /\ pages' = [pages EXCEPT ![frame_id].data = data]
  /\ last' = [op |-> "write", ok |-> TRUE, frame |-> frame_id]
  /\ UNCHANGED <<pool_size, page_table, free_list, lruList, lruMap, avlbPages,
                 disk, next_page_id>>

\* the net pin count of page_id after the call `op` that has just returned
TrackNet(op, page_id) ==
  /\ net' = IF ~last'.ok THEN net
            ELSE IF op = "unpin" THEN [net EXCEPT ![page_id] = NetStep(@, -1)]
            ELSE IF op = "fetch" /\ MapHas(page_table, page_id)
              THEN [net EXCEPT ![page_id] = NetStep(@, 1)]
            ELSE [net EXCEPT ![page_id] = 1]
  /\ UNCHANGED <<scen, unpinSeq, treeVars>>

NoHistory == UNCHANGED <<net, scen, unpinSeq, treeVars>>

\* -- Spec: every public call, with the pin counts of the pages recorded

FetchPage(page_id) == FetchPageCall(page_id) /\ TrackNet("fetch", page_id)

NewPage == NewPageCall /\ TrackNet("new", next_page_id)

UnpinPage(page_id, is_dirty) ==
  UnpinPageCall(page_id, is_dirty) /\ TrackNet("unpin", page_id)

FlushPage(page_id) == FlushPageCall(page_id) /\ NoHistory

DeletePage(page_id) == DeletePageCall(page_id) /\ NoHistory

FlushAllPages == FlushAllPagesCall /\ NoHistory

WriteData(frame_id, data) == WriteDataCall(frame_id, data) /\ NoHistory

Next ==
  \/ \E p \in PageIds : FetchPage(p)
  \/ NewPage
  \/ \E p \in PageIds, d \in BOOLEAN : UnpinPage(p, d)
  \/ \E p \in PageIds \cup {INVALID_PAGE_ID} : FlushPage(p)
  \/ \E p \in PageIds : DeletePage(p)
  \/ FlushAllPages
  \/ \E f \in DOMAIN pages, v \in DataVals \ {0} : WriteData(f, v)

Spec == Init /\ [][Next]_vars

\* -- SpecPin: the calls that pin and unpin pages

PinFetch(page_id) == FetchPageCall(page_id) /\ NoHistory

PinNew == NewPageCall /\ NoHistory

PinUnpin(page_id, is_dirty) == UnpinPageCall(page_id, is_dirty) /\ NoHistory

NextPin ==
  \/ \E p \in PageIds : PinFetch(p)
  \/ PinNew
  \/ \E p \in PageIds, d \in BOOLEAN : PinUnpin(p, d)

SpecPin == Init /\ [][NextPin]_vars

\* -- SpecDelete: the same calls and delete_page, with at most pool_size
\* frames in free_list

DelFetch(page_id) == FetchPageCall(page_id) /\ NoHistory

DelNew == NewPageCall /\ NoHistory

DelUnpin(page_id, is_dirty) == UnpinPageCall(page_id, is_dirty) /\ NoHistory

DelDelete(page_id) ==
  /\ Len(free_list) < pool_size
  /\ DeletePageCall(page_id)
  /\ NoHistory

NextDelete ==
  \/ \E p \in PageIds : DelFetch(p)
  \/ DelNew
  \/ \E p \in PageIds, d \in BOOLEAN : DelUnpin(p, d)
  \/ \E p \in PageIds : DelDelete(p)

SpecDelete == Init /\ [][NextDelete]_vars

\* -- SpecScenario: two frames over a file that holds the pages 0..3; the
\* callers fetch and unpin the scenario's pages

InitScenario == Constructed(ScenarioPoolSize, Cardinality(ScenarioPages) + 1)

ScenFetch(page_id) ==
  /\ FetchPageCall(page_id)
  /\ scen' = ScenStep(scen, "fetch", page_id)
  /\ UNCHANGED <<net, unpinSeq, treeVars>>

ScenUnpin(page_id, is_dirty) ==
  /\ UnpinPageCall(page_id, is_dirty)
  /\ scen' = ScenStep(scen, "unpin", page_id)
  /\ UNCHANGED <<net, unpinSeq, treeVars>>

NextScenario ==
  \/ \E p \in ScenarioPages : ScenFetch(p)
  \/ \E p \in ScenarioPages, d \in BOOLEAN : ScenUnpin(p, d)

SpecScenario == InitScenario /\ [][NextScenario]_vars

\* -- SpecEvict: the same pool; the callers also write the pages they pin

EvictFetch(page_id) == FetchPageCall(page_id) /\ NoHistory

EvictUnpin(page_id, is_dirty) == UnpinPageCall(page_id, is_dirty) /\ NoHistory

EvictWrite(frame_id, data) == WriteDataCall(frame_id, data) /\ NoHistory

NextEvict ==
  \/ \E p \in ScenarioPages : EvictFetch(p)
  \/ \E p \in ScenarioPages, d \in BOOLEAN : EvictUnpin(p, d)
  \/ \E f \in DOMAIN pages, v \in DataVals \ {0} : EvictWrite(f, v)

SpecEvict == InitScenario /\ [][NextEvict]_vars

\* ------------------------------------------------------------------------
\* The replacer driven alone
\* ------------------------------------------------------------------------

InstallReplacer(r) ==
  /\ lruList' = r.lruList
  /\ lruMap' = r.lruMap
  /\ avlbPages' = r.avlbPages
  /\ UNCHANGED <<pool_size, pages, page_table, free_list, disk, next_page_id,
                 net, scen, treeVars>>

\* s without the frame f
Without(s, f) == SelectSeq(s, LAMBDA x : x # f)

LruVictimCall ==
  \E o \in LruVictim(Replacer, LruFrames) :
    /\ InstallReplacer(o.r)
    /\ last' = [op |-> "Victim", ok |-> o.ok, frame |-> o.frame]
    /\ unpinSeq' = IF o.ok THEN Without(unpinSeq, o.frame) ELSE unpinSeq

LruPinCall(frame_id) ==
  /\ avlbPages > -MaxDeficit
  /\ \E r \in LruPin(Replacer, frame_id, LruFrames) : InstallReplacer(r)
  /\ last' = [op |-> "Pin", ok |-> TRUE, frame |-> frame_id]
  /\ unpinSeq' = Without(unpinSeq, frame_id)

LruUnpinCall(frame_id) ==
  /\ avlbPages < LruNumPages
  /\ \E r \in LruUnpin(Replacer, frame_id) : InstallReplacer(r)
  /\ last' = [op |-> "Unpin", ok |-> TRUE, frame |-> frame_id]
  /\ unpinSeq' = IF frame_id \in SeqToSet(unpinSeq) THEN unpinSeq
                 ELSE Append(unpinSeq, frame_id)

NextLRU ==
  \/ LruVictimCall
  \/ \E f \in LruFrames : LruPinCall(f)
  \/ \E f \in LruFrames : LruUnpinCall(f)

SpecLRU == Init /\ [][NextLRU]_vars

\* ------------------------------------------------------------------------
\* B+tree pages (src/storage/page/b_plus_tree_internal_page.cpp; the leaf
\* page and the page header are modelled from the specification)
\* ------------------------------------------------------------------------

\* the keys callers insert and remove are 1 .. MaxKey
MaxKey == 5

\* the values callers insert are 1 .. MaxValue
MaxValue == 1

\* largest page id the disk manager hands out to the tree's pool
TreeMaxPage == 8

\* the page that persists root_page_id
HEADER_PAGE_ID == 0

\* what zeroed page memory reads as when it is taken for a key or a page id
ZeroMemory == 0

TreeKeys == 1 .. MaxKey

TreeValues == 1 .. MaxValue

\* pages one Insert may allocate: one per level that splits, and a new root
MaxSplitPages == 4

\* the page ids of a file whose tree uses the pages up to max_page: an
\* Insert that starts within max_page may run MaxSplitPages past it
FilePages(max_page) == 0 .. (max_page + MaxSplitPages)

\* a pool in which every page of such a file fits
FitAll(max_page) == max_page + MaxSplitPages + 1

\* a page whose memory is all zero (a new page, a deleted page, a page the
\* file does not hold yet), read as a B+tree page
ZeroNode ==
  [page_type |-> "INVALID", page_id |-> ZeroMemory, parent_page_id |-> ZeroMemory,
   next_page_id |-> ZeroMemory, max_size |-> 0, array |-> <<>>]

\* BPlusTreePage::GetSize: array holds exactly the valid entries
GetSize(n) == Len(n.array)

\* BPlusTreePage::GetMinSize
GetMinSize(n) == (n.max_size + 1) \div 2

IsLeafPage(n) == n.page_type = "LEAF"

IsRootPage(n) == n.parent_page_id = INVALID_PAGE_ID

\* index is a valid array offset of n
InArray(n, index) == index >= 0 /\ index < GetSize(n)

\* BPlusTreeInternalPage::Init / BPlusTreeLeafPage::Init on a page whose
\* memory NewPage has zeroed
InitNode(type, page_id, parent_id, max_size) ==
  [page_type |-> type, page_id |-> page_id, parent_page_id |-> parent_id,
   next_page_id |-> IF type = "LEAF" THEN INVALID_PAGE_ID ELSE ZeroMemory,
   max_size |-> max_size, array |-> <<>>]

KeyAt(n, index) == n.array[index + 1].key

ValueAt(n, index) == n.array[index + 1].value

SetKeyAt(n, index, key) == [n EXCEPT !.array[index + 1].key = key]

\* BPlusTreeInternalPage::ValueIndex
ValueIndex(n, value) ==
  IF \E i \in 1 .. GetSize(n) : n.array[i].value = value
    THEN (CHOOSE i \in 1 .. GetSize(n) :
            /\ n.array[i].value = value
            /\ \A j \in 1 .. (i - 1) : n.array[j].value # value) - 1
  ELSE -1

\* BPlusTreeInternalPage::Lookup (n has at least one entry)
Lookup(n, key) ==
  LET stop == {i \in 1 .. (GetSize(n) - 1) : key < KeyAt(n, i)}
      last_i == IF stop = {} THEN GetSize(n) - 1
                ELSE (CHOOSE i \in stop : \A j \in stop : i <= j) - 1
  IN  ValueAt(n, last_i)

\* PopulateNewRoot that leaves array[1].first as it is in the new page
PopulateNewRootKeyUnset(n, old_value, new_key, new_value) ==
  [n EXCEPT !.array = <<[key |-> ZeroMemory, value |-> old_value],
                        [key |-> ZeroMemory, value |-> new_value]>>]

\* BPlusTreeInternalPage::PopulateNewRoot: array[0].first keeps the zeroed
\* memory of the new page
PopulateNewRoot(n, old_value, new_key, new_value) ==
  [n EXCEPT !.array = <<[key |-> ZeroMemory, value |-> old_value],
                        [key |-> new_key, value |-> new_value]>>]

\* s with e inserted so that it becomes the element at offset index
InsertAt(s, index, e) == SubSeq(s, 1, index) \o <<e>> \o SubSeq(s, index + 1, Len(s))

\* s without the element at offset index
RemoveAt(s, index) == SubSeq(s, 1, index) \o SubSeq(s, index + 2, Len(s))

\* BPlusTreeInternalPage::InsertNodeAfter: the page after the insertion (the
\* caller reads the new size from it).  An old_value that is not found
\* (ValueIndex -1) puts the pair at offset 0.
InsertNodeAfter(n, old_value, new_key, new_value) ==
  [n EXCEPT !.array = InsertAt(@, ValueIndex(n, old_value) + 1,
                               [key |-> new_key, value |-> new_value])]

\* BPlusTreeInternalPage::Remove for an index inside the array
InternalRemove(n, index) == [n EXCEPT !.array = RemoveAt(@, index)]

\* BPlusTreeInternalPage::RemoveAndReturnOnlyChild: [child, n]
RemoveAndReturnOnlyChild(n) ==
  [child |-> ValueAt(n, 0),
   n |-> [n EXCEPT !.array = SubSeq(@, 1, GetSize(n) - 1)]]

\* BPlusTreeLeafPage::KeyIndex: the first offset whose key is >= key
LeafKeyIndex(n, key) == Cardinality({i \in 1 .. GetSize(n) : n.array[i].key < key})

\* BPlusTreeLeafPage::Lookup: the value stored for key, or Absent
LeafLookup(n, key) ==
  IF \E i \in 1 .. GetSize(n) : n.array[i].key = key
    THEN (n.array[CHOOSE i \in 1 .. GetSize(n) : n.array[i].key = key]).value
  ELSE Absent

\* BPlusTreeLeafPage::Insert: the page after the insertion, sorted by key
LeafInsert(n, key, value) ==
  [n EXCEPT !.array = InsertAt(@, LeafKeyIndex(n, key),
                               [key |-> key, value |-> value])]

\* BPlusTreeLeafPage::RemoveAndDeleteRecord: an absent key changes nothing
LeafRemoveAndDeleteRecord(n, key) ==
  IF LeafLookup(n, key) = Absent THEN n
  ELSE [n EXCEPT !.array = RemoveAt(@, LeafKeyIndex(n, key))]

\* BPlusTreeLeafPage::MoveHalfTo: the rightmost ceil(size / 2) pairs go to
\* the empty recipient; [node, recipient]
LeafMoveHalfTo(n, recipient) ==
  LET remain_size == GetSize(n) \div 2
  IN  [node |-> [n EXCEPT !.array = SubSeq(@, 1, remain_size)],
       recipient |-> [recipient EXCEPT
                        !.array = SubSeq(n.array, remain_size + 1, GetSize(n))]]

\* BPlusTreeLeafPage::MoveAllTo: every pair is appended to the recipient,
\* which takes over this leaf's place in the leaf chain; [node, recipient]
LeafMoveAllTo(n, recipient) ==
  [node |-> [n EXCEPT !.array = <<>>],
   recipient |-> [recipient EXCEPT !.array = @ \o n.array,
                                   !.next_page_id = n.next_page_id]]

\* ------------------------------------------------------------------------
\* BPlusTree (src/storage/index/b_plus_tree.cpp).  The tree's methods are
\* sequences of buffer pool calls; a Page * or a page object pointer is the
\* frame it points into.  Every method maps a state s = [b, root, fault,
\* rwlatch, events, ...] (the buffer pool, root_page_id_, the fault flag, the
\* page latches, the pool and latch calls made so far) to the set of its
\* outcomes [s, r]: the state it leaves and the value it returns.
\* ------------------------------------------------------------------------

TreeState ==
  [b |-> Bpm, root |-> root_page_id, fault |-> fault,
   leaf_max_size |-> leaf_max_size, internal_max_size |-> internal_max_size,
   rwlatch |-> rwlatch, events |-> <<>>]

Ret(s, r) == {[s |-> s, r |-> r]}

\* a null or wild pointer is dereferenced, or a page is read or resized
\* outside the entries it holds: the call does not return normally
Crash(s) == Ret([s EXCEPT !.fault = TRUE], NoFrame)

\* the rest of a method, run on every outcome of its first part
Bind(S, F(_, _)) == UNION {IF x.s.fault THEN {x} ELSE F(x.s, x.r) : x \in S}

\* reinterpret_cast<...>(page->GetData()) read through the pointer f
Node(s, f) == s.b.pages[f].data

\* s after the call ev on page_id has been made; size and max_size are
\* those of the page the call was made on (0 where the call reads none)
Logged(s, ev, page_id, size, max_size) ==
  [s EXCEPT !.events = Append(@, [ev |-> ev, page |-> page_id, size |-> size,
                                  max_size |-> max_size])]

\* a write of the tree through the pointer f, into whatever page the frame
\* holds by then
Put(s, f, n) ==
  [Logged(s, "Write", s.b.pages[f].page_id, 0, 0) EXCEPT !.b.pages[f].data = n]

\* the frame f as the pool hands it out or takes it back: its memory is zeroed
Zeroed(s, f) == [s EXCEPT !.b.pages[f].data = ZeroNode]

\* Page::GetPageId
PageIdOf(s, f) == s.b.pages[f].page_id

\* buffer_pool_manager_->FetchPage: r is the frame; the callers dereference
\* the result without a test
TFetchPage(s, page_id) ==
  IF page_id \notin DOMAIN s.b.page_table THEN Crash(s)
  ELSE {[s |-> [Logged(s, "Fetch", page_id, 0, 0) EXCEPT
                  !.b = o.s, !.fault = (o.frame = NoFrame)],
          r |-> o.frame]
          : o \in FetchPageImpl(s.b, page_id)}

\* buffer_pool_manager_->NewPage: r is the frame; a nullptr is dereferenced
\* (StartNewTree, InsertIntoParent) or thrown as an exception (Split)
TNewPage(s) ==
  {[s |-> IF o.frame = NoFrame
            THEN [Logged(s, "NewNull", INVALID_PAGE_ID, 0, 0) EXCEPT
                    !.b = o.s, !.fault = TRUE]
          ELSE Zeroed([Logged(s, "New", o.s.pages[o.frame].page_id, 0, 0)
                         EXCEPT !.b = o.s], o.frame),
    r |-> o.frame]
     : o \in NewPageImpl(s.b)}

\* buffer_pool_manager_->UnpinPage: r is its result, which no caller reads
TUnpinPage(s, page_id, is_dirty) ==
  {[s |-> [Logged(s, "Unpin", page_id, 0, 0) EXCEPT !.b = o.s], r |-> o.ok]
     : o \in UnpinPageImpl(s.b, page_id, is_dirty)}

\* buffer_pool_manager_->DeletePage
TDeletePage(s, page_id) ==
  LET o == DeletePageImpl(s.b, page_id)
      s1 == [Logged(s, IF o.ok THEN "Delete" ELSE "DeleteRefused", page_id, 0, 0)
               EXCEPT !.b = o.s]
  IN  IF MapHas(s.b.page_table, page_id) /\ o.ok
        THEN Ret(Zeroed(s1, s.b.page_table[page_id]), TRUE)
      ELSE Ret(s1, o.ok)

\* BPlusTree::LockPage on the page the pointer points to: RLatch or WLatch
\* (the page set of a transaction is not modelled).  A thread that waits
\* for a latch it holds itself never returns.
LockPage(s, page, read) ==
  LET l == s.rwlatch[page]
      n == Node(s, page)
  IN  IF l.writer \/ (~read /\ l.readers > 0) THEN Crash(s)
      ELSE Ret([Logged(s, IF read THEN "RLatch" ELSE "WLatch", PageIdOf(s, page),
                       GetSize(n), n.max_size) EXCEPT
                  !.rwlatch[page] = IF read THEN [@ EXCEPT !.readers = @ + 1]
                                    ELSE [@ EXCEPT !.writer = TRUE]], page)

\* BPlusTree::UnlockPage: RUnlatch or WUnlatch; unlocking a latch that is
\* not held is undefined
UnlockPage(s, page, read) ==
  LET l == s.rwlatch[page]
      n == Node(s, page)
  IN  IF (read /\ l.readers = 0) \/ (~read /\ ~l.writer) THEN Crash(s)
      ELSE Ret([Logged(s, IF read THEN "RUnlatch" ELSE "WUnlatch",
                       PageIdOf(s, page), GetSize(n), n.max_size) EXCEPT
                  !.rwlatch[page] = IF read THEN [@ EXCEPT !.readers = @ - 1]
                                    ELSE [@ EXCEPT !.writer = FALSE]], page)

\* the header page's record of the index's root (HeaderPage::InsertRecord,
\* HeaderPage::UpdateRecord)
HeaderRecord(root) ==
  [page_type |-> "HEADER", page_id |-> HEADER_PAGE_ID,
   parent_page_id |-> ZeroMemory, next_page_id |-> ZeroMemory, max_size |-> 0,
   array |-> <<>>, root_id |-> root]

\* BPlusTree::UpdateRootPageId
UpdateRootPageId(s, insert_record) ==
  Bind(TFetchPage(s, HEADER_PAGE_ID), LAMBDA s1, header_page :
    TUnpinPage(Put(s1, header_page, HeaderRecord(s1.root)), HEADER_PAGE_ID, TRUE))

\* BPlusTree::IsEmpty
IsEmpty(s) == s.root = INVALID_PAGE_ID

RECURSIVE FindLeafLoop(_, _, _, _, _)
\* the while loop of FindLeafPage; page is the pinned and read-latched page
\* it stands on.  A descent longer than the number of pages allocated never
\* ends.
FindLeafLoop(s, page, key, leftMost, fuel) ==
  LET node == Node(s, page)
  IN  IF IsLeafPage(node) THEN Ret(s, page)
      ELSE IF fuel = 0 \/ GetSize(node) = 0 THEN Crash(s)
      ELSE LET child_page_id == IF leftMost THEN ValueAt(node, 0)
                                ELSE Lookup(node, key)
           IN  Bind(UnlockPage(s, page, TRUE), LAMBDA s0, r0 :
               Bind(TUnpinPage(s0, PageIdOf(s0, page), FALSE), LAMBDA s1, r1 :
               Bind(TFetchPage(s1, child_page_id), LAMBDA s2, child :
               Bind(LockPage(s2, child, TRUE), LAMBDA s3, r3 :
                 FindLeafLoop(s3, child, key, leftMost, fuel - 1)))))

\* BPlusTree::FindLeafPage up to the end of its loop: r is the leaf's page,
\* pinned and read-latched
FindLeafDescent(s, key, leftMost) ==
  Bind(TFetchPage(s, s.root), LAMBDA s1, page :
  Bind(LockPage(s1, page, TRUE), LAMBDA s2, r2 :
    FindLeafLoop(s2, page, key, leftMost, s2.b.next_page_id)))

\* BPlusTree::FindLeafPage: r is the leaf's page, pinned, read-latched for
\* read and write-latched otherwise
FindLeafPage(s, key, leftMost, read) ==
  Bind(FindLeafDescent(s, key, leftMost), LAMBDA s1, page :
    IF read THEN Ret(s1, page)
    ELSE Bind(UnlockPage(s1, page, TRUE), LAMBDA s2, r2 :
           LockPage(s2, page, FALSE)))

\* BPlusTree::GetValue: r is the value found, or Absent for `false`
GetValue(s, key) ==
  IF IsEmpty(s) THEN Ret(s, Absent)
  ELSE Bind(FindLeafPage(s, key, FALSE, TRUE), LAMBDA s1, leaf_page :
         LET leaf == Node(s1, leaf_page)
         IN  Bind(UnlockPage(s1, leaf_page, TRUE), LAMBDA s2, r2 :
             Bind(TUnpinPage(s2, leaf.page_id, FALSE), LAMBDA s3, r3 :
               Ret(s3, LeafLookup(leaf, key)))))

\* BPlusTree::StartNewTree
StartNewTree(s, key, value) ==
  Bind(TNewPage(s), LAMBDA s1, page :
  Bind(LockPage([s1 EXCEPT !.root = PageIdOf(s1, page)], page, FALSE),
       LAMBDA s2, r2 :
    LET root == LeafInsert(InitNode("LEAF", s2.root, INVALID_PAGE_ID, s.leaf_max_size),
                           key, value)
    IN  Bind(UpdateRootPageId(Put(s2, page, root), 1), LAMBDA s3, r3 :
        Bind(UnlockPage(s3, page, FALSE), LAMBDA s4, r4 :
          TUnpinPage(s4, s4.root, TRUE)))))

\* `if (new_page == nullptr) throw Exception(OUT_OF_MEMORY)` on the outcomes
\* S of NewPage: the exception leaves the tree operation
ThrowOutOfMemory(S) ==
  {IF o.r = NoFrame THEN [o EXCEPT !.s = Logged(o.s, "Throw", INVALID_PAGE_ID, 0, 0)]
   ELSE o : o \in S}

RECURSIVE Adopt(_, _, _)
\* the loop of CopyNFrom and of MoveAllTo that makes page_id the parent of
\* every page in children
Adopt(s, children, page_id) ==
  IF children = <<>> THEN Ret(s, TRUE)
  ELSE Bind(TFetchPage(s, Head(children)), LAMBDA s1, page :
       Bind(TUnpinPage(Put(s1, page, [Node(s1, page) EXCEPT
                                        !.parent_page_id = page_id]),
                       Head(children), TRUE), LAMBDA s2, r2 :
         Adopt(s2, Tail(children), page_id)))

\* the child page ids of a sequence of internal-page pairs
Children(pairs) == [i \in 1 .. Len(pairs) |-> pairs[i].value]

\* BPlusTreeInternalPage::MoveHalfTo with CopyNFrom
InternalMoveHalfTo(s, this, recipient) ==
  LET remain_size == GetSize(Node(s, this)) \div 2
      items == SubSeq(Node(s, this).array, remain_size + 1, GetSize(Node(s, this)))
      s1 == Put(s, recipient, [Node(s, recipient) EXCEPT !.array = items])
  IN  Bind(Adopt(s1, Children(items), Node(s1, recipient).page_id),
           LAMBDA s2, r2 :
             IF remain_size > GetSize(Node(s2, this)) THEN Crash(s2)
             ELSE Ret(Put(s2, this, [Node(s2, this) EXCEPT
                                       !.array = SubSeq(@, 1, remain_size)]), TRUE))

\* BPlusTree::Split: r is the new page (unpinned again before it is returned)
Split(s, node, leaf) ==
  Bind(ThrowOutOfMemory(TNewPage(s)), LAMBDA s0, new_page :
  Bind(LockPage(s0, new_page, FALSE), LAMBDA s1, r1 :
    LET new_page_id == PageIdOf(s1, new_page)
        s2 == Put(s1, new_page,
                  InitNode(IF leaf THEN "LEAF" ELSE "INTERNAL", new_page_id,
                           Node(s1, node).parent_page_id, Node(s1, node).max_size))
        moved == LeafMoveHalfTo(Node(s2, node), Node(s2, new_page))
    IN  Bind(IF leaf THEN Ret(Put(Put(s2, new_page, moved.recipient), node, moved.node),
                              TRUE)
             ELSE InternalMoveHalfTo(s2, node, new_page), LAMBDA s3, r3 :
        Bind(UnlockPage(s3, new_page, FALSE), LAMBDA s4, r4 :
        Bind(TUnpinPage(s4, new_page_id, TRUE), LAMBDA s5, r5 :
          Ret(s5, new_page))))))

RECURSIVE InsertIntoParent(_, _, _, _)
\* BPlusTree::InsertIntoParent
InsertIntoParent(s, old_node, key, new_node) ==
  IF IsRootPage(Node(s, old_node))
    THEN Bind(TNewPage(s), LAMBDA s0, new_root_page :
         Bind(LockPage(s0, new_root_page, FALSE), LAMBDA s1, r1 :
           LET new_root_id == PageIdOf(s1, new_root_page)
               s2 == Put(s1, new_root_page,
                         PopulateNewRoot(
                           InitNode("INTERNAL", new_root_id, INVALID_PAGE_ID,
                                    s.internal_max_size),
                           Node(s1, old_node).page_id, key,
                           Node(s1, new_node).page_id))
               s3 == Put(s2, old_node, [Node(s2, old_node) EXCEPT
                                          !.parent_page_id = new_root_id])
               s4 == Put(s3, new_node, [Node(s3, new_node) EXCEPT
                                          !.parent_page_id = new_root_id])
           IN  Bind(UnlockPage([s4 EXCEPT !.root = new_root_id], new_root_page,
                               FALSE), LAMBDA s5, r5 :
                 TUnpinPage(s5, new_root_id, TRUE))))
  ELSE LET parent_id == Node(s, old_node).parent_page_id
       IN  Bind(TFetchPage(s, parent_id), LAMBDA s0, parent_page :
           Bind(LockPage(s0, parent_page, FALSE), LAMBDA s1, r1 :
             LET s2 == Put(s1, parent_page,
                           InsertNodeAfter(Node(s1, parent_page),
                                           Node(s1, old_node).page_id, key,
                                           Node(s1, new_node).page_id))
                 done(s5) == Bind(UnlockPage(s5, parent_page, FALSE), LAMBDA s6, r6 :
                               TUnpinPage(s6, parent_id, TRUE))
             IN  IF GetSize(Node(s2, parent_page)) > s.internal_max_size
                   THEN Bind(Split(s2, parent_page, FALSE), LAMBDA s3, new_internal :
                          IF ~InArray(Node(s3, new_internal), 0) THEN Crash(s3)
                          ELSE Bind(InsertIntoParent(s3, parent_page,
                                                     KeyAt(Node(s3, new_internal), 0),
                                                     new_internal),
                                    LAMBDA s4, r4 : done(s4)))
                 ELSE done(s2)))

\* RejectDuplicate without its UnpinPage
RejectDuplicateStillPinned(s1, leaf_page) ==
  Bind(UnlockPage(s1, leaf_page, FALSE), LAMBDA s0, r0 : Ret(s0, FALSE))

\* the duplicate-key return of InsertIntoLeaf: r is the bool it returns
RejectDuplicate(s1, leaf_page) ==
  Bind(UnlockPage(s1, leaf_page, FALSE), LAMBDA s0, r0 :
  Bind(TUnpinPage(s0, PageIdOf(s0, leaf_page), FALSE), LAMBDA s2, r2 :
    Ret(s2, FALSE)))

\* BPlusTree::InsertIntoLeaf from the return of FindLeafPage on: leaf_page is
\* the leaf, pinned and write-latched; r is the bool it returns
InsertAtLeaf(s1, leaf_page, key, value) ==
  IF LeafLookup(Node(s1, leaf_page), key) # Absent
    THEN RejectDuplicate(s1, leaf_page)
  ELSE LET s2 == Put(s1, leaf_page, LeafInsert(Node(s1, leaf_page), key, value))
           done(s7) == Bind(UnlockPage(s7, leaf_page, FALSE), LAMBDA s8, r8 :
                       Bind(TUnpinPage(s8, PageIdOf(s8, leaf_page), TRUE),
                            LAMBDA s9, r9 : Ret(s9, TRUE)))
       IN  IF GetSize(Node(s2, leaf_page)) > s1.leaf_max_size
             THEN Bind(Split(s2, leaf_page, TRUE), LAMBDA s3, new_leaf :
                    IF ~InArray(Node(s3, new_leaf), 0) THEN Crash(s3)
                    ELSE Bind(InsertIntoParent(s3, leaf_page,
                                               KeyAt(Node(s3, new_leaf), 0), new_leaf),
                              LAMBDA s4, r4 :
                      LET s5 == Put(s4, new_leaf,
                                    [Node(s4, new_leaf) EXCEPT !.next_page_id =
                                       Node(s4, leaf_page).next_page_id])
                          s6 == Put(s5, leaf_page,
                                    [Node(s5, leaf_page) EXCEPT !.next_page_id =
                                       Node(s5, new_leaf).page_id])
                      IN  done(s6)))
           ELSE done(s2)

\* BPlusTree::InsertIntoLeaf: r is the bool it returns
InsertIntoLeaf(s, key, value) ==
  Bind(FindLeafPage(s, key, FALSE, FALSE), LAMBDA s1, leaf_page :
    InsertAtLeaf(s1, leaf_page, key, value))

\* BPlusTree::Insert: r is the bool it returns
Insert(s, key, value) ==
  IF IsEmpty(s)
    THEN Bind(StartNewTree(s, key, value), LAMBDA s1, r1 : Ret(s1, TRUE))
  ELSE InsertIntoLeaf(s, key, value)

\* BPlusTreeInternalPage::MoveAllTo: the first moved key becomes middle_key
InternalMoveAllTo(s, this, recipient, middle_key) ==
  LET moved == Node(s, this).array
      keyed == IF moved = <<>> THEN moved
               ELSE [moved EXCEPT ![1].key = middle_key]
      s1 == Put(s, recipient, [Node(s, recipient) EXCEPT !.array = @ \o keyed])
  IN  Bind(Adopt(s1, Children(moved), Node(s1, recipient).page_id),
           LAMBDA s2, r2 :
             Ret(Put(s2, this, [Node(s2, this) EXCEPT !.array = <<>>]), TRUE))

\* the tail of MoveFirstToEndOf / MoveLastToFrontOf: the parent's key for
\* the page `of` becomes that page's first key
UpdateParentKey(s, of) ==
  LET parent_id == Node(s, of).parent_page_id
  IN  Bind(TFetchPage(s, parent_id), LAMBDA s1, parent_page :
        LET index == ValueIndex(Node(s1, parent_page), Node(s1, of).page_id)
        IN  IF ~InArray(Node(s1, parent_page), index) \/ ~InArray(Node(s1, of), 0)
              THEN Crash(s1)
            ELSE TUnpinPage(Put(s1, parent_page,
                                SetKeyAt(Node(s1, parent_page), index,
                                         KeyAt(Node(s1, of), 0))),
                            parent_id, TRUE))

\* BPlusTreeInternalPage::MoveFirstToEndOf with CopyLastFrom
InternalMoveFirstToEndOf(s, this, recipient, middle_key) ==
  IF ~InArray(Node(s, this), 0) THEN Crash(s)
  ELSE LET pair == [key |-> middle_key, value |-> ValueAt(Node(s, this), 0)]
           s1 == Put(s, recipient, [Node(s, recipient) EXCEPT
                                      !.array = Append(@, pair)])
       IN  Bind(Adopt(s1, <<pair.value>>, Node(s1, recipient).page_id),
                LAMBDA s2, r2 :
                  IF ~InArray(Node(s2, this), 0) THEN Crash(s2)
                  ELSE UpdateParentKey(Put(s2, this, [Node(s2, this) EXCEPT
                                                        !.array = Tail(@)]), this))

\* BPlusTreeInternalPage::MoveLastToFrontOf with CopyFirstFrom
InternalMoveLastToFrontOf(s, this, recipient, middle_key) ==
  IF ~InArray(Node(s, this), 0) THEN Crash(s)
  ELSE LET pair == Node(s, this).array[GetSize(Node(s, this))]
           keyed == IF InArray(Node(s, recipient), 0)
                      THEN SetKeyAt(Node(s, recipient), 0, middle_key)
                    ELSE Node(s, recipient)
           s1 == Put(s, recipient, [keyed EXCEPT !.array = <<pair>> \o @])
       IN  Bind(Adopt(s1, <<pair.value>>, Node(s1, recipient).page_id),
                LAMBDA s2, r2 :
                  IF ~InArray(Node(s2, this), 0) THEN Crash(s2)
                  ELSE UpdateParentKey(
                         Put(s2, this, [Node(s2, this) EXCEPT
                                          !.array = SubSeq(@, 1, Len(@) - 1)]),
                         recipient))

\* BPlusTreeLeafPage::MoveFirstToEndOf: as the internal page's, without the
\* adoption and without the middle key
LeafMoveFirstToEndOf(s, this, recipient) ==
  IF ~InArray(Node(s, this), 0) THEN Crash(s)
  ELSE LET pair == Node(s, this).array[1]
           s1 == Put(s, recipient, [Node(s, recipient) EXCEPT
                                      !.array = Append(@, pair)])
       IN  UpdateParentKey(Put(s1, this, [Node(s1, this) EXCEPT
                                            !.array = Tail(@)]), this)

\* BPlusTreeLeafPage::MoveLastToFrontOf: as the internal page's, without the
\* adoption and without the middle key
LeafMoveLastToFrontOf(s, this, recipient) ==
  IF ~InArray(Node(s, this), 0) THEN Crash(s)
  ELSE LET pair == Node(s, this).array[GetSize(Node(s, this))]
           s1 == Put(s, recipient, [Node(s, recipient) EXCEPT
                                      !.array = <<pair>> \o @])
       IN  UpdateParentKey(Put(s1, this, [Node(s1, this) EXCEPT
                                            !.array = SubSeq(@, 1, Len(@) - 1)]),
                           recipient)

\* AdjustRoot that leaves the promoted child's parent_page_id as it was
AdjustRootParentKept(s, old_root_node) ==
  LET n == Node(s, old_root_node)
  IN  IF ~IsLeafPage(n)
        THEN IF GetSize(n) = 1
               THEN LET only == RemoveAndReturnOnlyChild(n)
                        s1 == [Put(s, old_root_node, only.n) EXCEPT !.root = only.child]
                    IN  Bind(UpdateRootPageId(s1, 0), LAMBDA s2, r2 :
                        Bind(TFetchPage(s2, s2.root), LAMBDA s3, page :
                        Bind(TUnpinPage(s3, s3.root, TRUE), LAMBDA s4, r4 :
                          Ret(s4, TRUE))))
             ELSE Ret(s, FALSE)
      ELSE IF GetSize(n) = 0
        THEN Bind(UpdateRootPageId([s EXCEPT !.root = INVALID_PAGE_ID], 0),
                  LAMBDA s1, r1 : Ret(s1, TRUE))
      ELSE Ret(s, FALSE)

\* BPlusTree::AdjustRoot: r is `the root page should be deleted`
AdjustRoot(s, old_root_node) ==
  LET n == Node(s, old_root_node)
  IN  IF ~IsLeafPage(n)
        THEN IF GetSize(n) = 1
               THEN LET only == RemoveAndReturnOnlyChild(n)
                        s1 == [Put(s, old_root_node, only.n) EXCEPT !.root = only.child]
                    IN  Bind(UpdateRootPageId(s1, 0), LAMBDA s2, r2 :
                        Bind(TFetchPage(s2, s2.root), LAMBDA s3, page :
                        Bind(TUnpinPage(Put(s3, page, [Node(s3, page) EXCEPT
                                              !.parent_page_id = INVALID_PAGE_ID]),
                                        s3.root, TRUE), LAMBDA s4, r4 :
                          Ret(s4, TRUE))))
             ELSE Ret(s, FALSE)
      ELSE IF GetSize(n) = 0
        THEN Bind(UpdateRootPageId([s EXCEPT !.root = INVALID_PAGE_ID], 0),
                  LAMBDA s1, r1 : Ret(s1, TRUE))
      ELSE Ret(s, FALSE)

\* transaction->AddIntoDeletedPageSet(page_id) after a DeletePage: the
\* recursive calls run with the default transaction, nullptr
AddIntoDeletedPageSet(s, transaction, r) ==
  IF transaction THEN Ret(s, r) ELSE Crash(s)

\* the test of CoalesceOrRedistribute that never borrows
NeverBorrows(sib_node, node) == FALSE

\* the test of CoalesceOrRedistribute: borrow from the sibling, not merge
Borrows(sib_node, node) ==
  GetSize(sib_node) + GetSize(node) > node.max_size

RECURSIVE CoalesceOrRedistribute(_, _, _, _)
RECURSIVE Coalesce(_, _, _, _, _, _)
RECURSIVE Redistribute(_, _, _, _, _)

\* BPlusTree::CoalesceOrRedistribute<N>: leaf says whether N is the leaf
\* page type, transaction whether the caller passed one; r is `node should
\* be deleted`
CoalesceOrRedistribute(s, node, leaf, transaction) ==
  IF IsRootPage(Node(s, node)) THEN AdjustRoot(s, node)
  ELSE
    LET parent_id == Node(s, node).parent_page_id
    IN  Bind(TFetchPage(s, parent_id), LAMBDA s0, parent_page :
        Bind(LockPage(s0, parent_page, FALSE), LAMBDA s1, r1 :
          LET cur_index == ValueIndex(Node(s1, parent_page), Node(s1, node).page_id)
              is_left_sib == cur_index # 0
              sib_index == IF cur_index = 0 THEN 1 ELSE cur_index - 1
          IN  IF ~InArray(Node(s1, parent_page), sib_index) THEN Crash(s1)
              ELSE
                LET sib_id == ValueAt(Node(s1, parent_page), sib_index)
                IN  Bind(TFetchPage(s1, sib_id), LAMBDA sf, sib_page :
                    Bind(LockPage(sf, sib_page, FALSE), LAMBDA s2, r2 :
                      LET released(s3) ==
                            Bind(UnlockPage(s3, parent_page, FALSE), LAMBDA sa, ra :
                            Bind(UnlockPage(sa, sib_page, FALSE), LAMBDA sb, rb :
                            Bind(TUnpinPage(sb, parent_id, TRUE), LAMBDA s4, r4 :
                              TUnpinPage(s4, sib_id, TRUE))))
                      IN
                      IF IsLeafPage(Node(s2, sib_page)) # leaf
                           \/ IsLeafPage(Node(s2, node)) # leaf
                        THEN Crash(s2)
                      ELSE IF Borrows(Node(s2, sib_page), Node(s2, node))
                        THEN Bind(Redistribute(s2, sib_page, node, is_left_sib, leaf),
                                  LAMBDA s3, r3 :
                             Bind(released(s3), LAMBDA s5, r5 : Ret(s5, FALSE)))
                      ELSE Bind(Coalesce(s2, sib_page, node, parent_page,
                                         is_left_sib, leaf), LAMBDA s3, c :
                           Bind(released(s3), LAMBDA s5, r5 :
                             IF ~is_left_sib
                               THEN Bind(TDeletePage(s5, Node(s5, c.node).page_id),
                                         LAMBDA s6, deleted :
                                           AddIntoDeletedPageSet(s6, transaction, FALSE))
                             ELSE IF c.parent_need_delete
                               THEN Bind(TDeletePage(s5, parent_id),
                                         LAMBDA s6, deleted :
                                           AddIntoDeletedPageSet(s6, transaction, TRUE))
                             ELSE Ret(s5, TRUE)))))))

\* BPlusTree::Coalesce<N>: r is [parent_need_delete, node], node being what
\* the caller's `node` points to after the swap
Coalesce(s, neighbor_node, node, parent, index, leaf) ==
  LET nb == IF index THEN neighbor_node ELSE node
      nd == IF index THEN node ELSE neighbor_node
      remove_index == ValueIndex(Node(s, parent), Node(s, nd).page_id)
  IN  IF ~InArray(Node(s, parent), remove_index) THEN Crash(s)
      ELSE
        LET moved == LeafMoveAllTo(Node(s, nd), Node(s, nb))
        IN  Bind(IF leaf THEN Ret(Put(Put(s, nb, moved.recipient), nd, moved.node), TRUE)
                 ELSE InternalMoveAllTo(s, nd, nb,
                                        KeyAt(Node(s, parent), remove_index)),
                 LAMBDA s1, r1 :
              LET index1 == ValueIndex(Node(s1, parent), Node(s1, nd).page_id)
              IN  IF ~InArray(Node(s1, parent), index1) THEN Crash(s1)
                  ELSE
                    LET s2 == Put(s1, parent, InternalRemove(Node(s1, parent), index1))
                    IN  IF GetSize(Node(s2, parent)) < GetMinSize(Node(s2, parent))
                          THEN Bind(CoalesceOrRedistribute(s2, parent, FALSE, FALSE),
                                    LAMBDA s3, r3 :
                                      Ret(s3, [parent_need_delete |-> r3, node |-> nd]))
                        ELSE Ret(s2, [parent_need_delete |-> FALSE, node |-> nd]))

\* BPlusTree::Redistribute<N>.  For an internal page the middle key is the
\* parent's key at the index of `node`, whichever side the neighbour is on.
Redistribute(s, neighbor_node, node, index, leaf) ==
  Bind(IF leaf THEN Ret(s, ZeroMemory)
       ELSE LET parent_id == Node(s, node).parent_page_id
            IN  Bind(TFetchPage(s, parent_id), LAMBDA s1, page :
                  LET i == ValueIndex(Node(s1, page), Node(s1, node).page_id)
                  IN  IF ~InArray(Node(s1, page), i) THEN Crash(s1)
                      ELSE Bind(TUnpinPage(s1, parent_id, FALSE), LAMBDA s2, r2 :
                             Ret(s2, KeyAt(Node(s1, page), i)))),
       LAMBDA s3, key :
         Bind(IF index
                THEN IF leaf THEN LeafMoveLastToFrontOf(s3, neighbor_node, node)
                     ELSE InternalMoveLastToFrontOf(s3, neighbor_node, node, key)
              ELSE IF leaf THEN LeafMoveFirstToEndOf(s3, neighbor_node, node)
                   ELSE InternalMoveFirstToEndOf(s3, neighbor_node, node, key),
              LAMBDA s4, r4 :
                IF GetSize(Node(s4, neighbor_node)) < GetMinSize(Node(s4, neighbor_node))
                  THEN CoalesceOrRedistribute(s4, neighbor_node, leaf, FALSE)
                ELSE Ret(s4, TRUE)))

\* BPlusTree::Remove; transaction is FALSE for nullptr
Remove(s, key, transaction) ==
  IF IsEmpty(s) THEN Ret(s, TRUE)
  ELSE Bind(FindLeafPage(s, key, FALSE, FALSE), LAMBDA s1, leaf_page :
         LET s2 == Put(s1, leaf_page, LeafRemoveAndDeleteRecord(Node(s1, leaf_page), key))
             size == GetSize(Node(s2, leaf_page))
         IN  Bind(TUnpinPage(s2, PageIdOf(s2, leaf_page), TRUE), LAMBDA su, ru :
             Bind(UnlockPage(su, leaf_page, FALSE), LAMBDA s3, r3 :
               IF size < GetMinSize(Node(s3, leaf_page))
                 THEN Bind(CoalesceOrRedistribute(s3, leaf_page, TRUE, transaction),
                           LAMBDA s4, need_delete :
                             IF need_delete
                               THEN Bind(TDeletePage(s4, Node(s4, leaf_page).page_id),
                                         LAMBDA s5, deleted :
                                           AddIntoDeletedPageSet(s5, transaction, TRUE))
                             ELSE Ret(s4, TRUE))
               ELSE Ret(s3, TRUE))))

\* ------------------------------------------------------------------------
\* IndexIterator (src/storage/index/index_iterator.cpp) and the tree methods
\* that construct it.  An iterator is [node, index]: node_ as the frame it
\* points into, index_.
\* ------------------------------------------------------------------------

\* BPlusTree::begin: r is the iterator
begin(s) ==
  Bind(FindLeafPage(s, ZeroMemory, TRUE, TRUE), LAMBDA s1, page :
  Bind(TUnpinPage(s1, Node(s1, page).page_id, FALSE), LAMBDA s2, r2 :
  Bind(UnlockPage(s2, page, TRUE), LAMBDA s3, r3 :
    Ret(s3, [node |-> page, index |-> 0]))))

\* BPlusTree::Begin(key): r is the iterator
Begin(s, key) ==
  Bind(FindLeafPage(s, key, FALSE, TRUE), LAMBDA s1, page :
    LET index == LeafKeyIndex(Node(s1, page), key)
    IN  Bind(TUnpinPage(s1, Node(s1, page).page_id, FALSE), LAMBDA s2, r2 :
        Bind(UnlockPage(s2, page, TRUE), LAMBDA s3, r3 :
          Ret(s3, [node |-> page, index |-> index]))))

\* IndexIterator::isEnd
isEnd(s, it) ==
  /\ it.index >= GetSize(Node(s, it.node)) - 1
  /\ Node(s, it.node).next_page_id = INVALID_PAGE_ID

\* IndexIterator::operator++: r is the iterator after the step
Increment(s, it) ==
  IF it.node = NoFrame THEN Crash(s)
  ELSE IF isEnd(s, it) THEN Ret(s, [node |-> NoFrame, index |-> -1])
  ELSE IF it.index + 1 >= GetSize(Node(s, it.node))
    THEN LET next_id == Node(s, it.node).next_page_id
         IN  Bind(TFetchPage(s, next_id), LAMBDA s1, page :
             Bind(TUnpinPage(s1, next_id, FALSE), LAMBDA s2, r2 :
               Ret(s2, [node |-> page, index |-> 0])))
  ELSE Ret(s, [node |-> it.node, index |-> it.index + 1])

RECURSIVE Scan(_, _, _)
\* the caller's loop: operator* at the iterator's position, then operator++
\* until isEnd() is reached; r is the sequence of the entries read.  An
\* operator* outside the entries of the leaf reads what the page does not
\* hold; a scan longer than the entries the file can hold never ends.
Scan(s, it, fuel) ==
  IF it.node = NoFrame \/ ~InArray(Node(s, it.node), it.index) \/ fuel = 0
    THEN Crash(s)
  ELSE LET e == Node(s, it.node).array[it.index + 1]
       IN  IF isEnd(s, it) THEN Ret(s, <<e>>)
           ELSE Bind(Increment(s, it), LAMBDA s1, it1 :
                Bind(Scan(s1, it1, fuel - 1), LAMBDA s2, rest :
                  Ret(s2, <<e>> \o rest)))

\* ------------------------------------------------------------------------
\* The B+tree driven by its callers
\* ------------------------------------------------------------------------

\* the disk manager has not handed out a page id beyond the file's max_page
PagesSuffice(s) ==
  s.b.next_page_id + MaxSplitPages <= Cardinality(DOMAIN s.b.page_table)

\* BufferPoolManager::BufferPoolManager for the pool the tree runs on
TreeConstructed(size, max_page) ==
  [pool_size |-> size,
   pages |-> [f \in 0 .. (size - 1) |->
                [page_id |-> INVALID_PAGE_ID, pin_count |-> 0,
                 is_dirty |-> FALSE, data |-> ZeroNode]],
   page_table |-> [p \in FilePages(max_page) |-> Absent],
   free_list |-> [i \in 1 .. size |-> i - 1],
   replacer |-> [lruList |-> <<>>, lruMap |-> [k \in 0 .. (size - 1) |-> Absent],
                 avlbPages |-> 0],
   disk |-> [p \in FilePages(max_page) |-> ZeroNode],
   next_page_id |-> 0]

\* the caller creates the header page (page 0) before the index and unpins it
WithHeaderPage(b) ==
  LET s0 == [b |-> b, root |-> INVALID_PAGE_ID, fault |-> FALSE, events |-> <<>>]
      made == Bind(TNewPage(s0), LAMBDA s1, page :
                TUnpinPage(Put(s1, page, HeaderRecord(INVALID_PAGE_ID)),
                           HEADER_PAGE_ID, TRUE))
  IN  (CHOOSE o \in made : TRUE).s.b

\* a pool of `size` frames over a file of max_page pages, and an empty index
\* of the given page sizes whose callers use the given keys, nthreads of
\* them calling it concurrently
TreeInitOn(size, max_page, keys, leaf_max, internal_max, nthreads) ==
  LET b == WithHeaderPage(TreeConstructed(size, max_page))
  IN  /\ pool_size = b.pool_size
      /\ pages = b.pages
      /\ page_table = b.page_table
      /\ free_list = b.free_list
      /\ lruList = b.replacer.lruList
      /\ lruMap = b.replacer.lruMap
      /\ avlbPages = b.replacer.avlbPages
      /\ disk = b.disk
      /\ next_page_id = b.next_page_id
      /\ last = [op |-> "init", ok |-> TRUE, frame |-> NoFrame]
      /\ net = [p \in PageUniverse |-> 0]
      /\ scen = 0
      /\ unpinSeq = <<>>
      /\ root_page_id = INVALID_PAGE_ID
      /\ leaf_max_size = leaf_max
      /\ internal_max_size = internal_max
      /\ fault = FALSE
      /\ mirror = [k \in keys |-> Absent]
      /\ rwlatch = [f \in 0 .. (size - 1) |-> [readers |-> 0, writer |-> FALSE]]
      /\ threads = [t \in 1 .. nthreads |-> [at |-> "idle"]]
      /\ exec = NoExecutor

InitTree ==
  TreeInitOn(FitAll(TreeMaxPage), TreeMaxPage, TreeKeys, LeafMaxSize, InternalMaxSize, 0)

\* the keys the tree's callers use
Keys == DOMAIN mirror

\* the state a tree method leaves
InstallTree(s) ==
  /\ Install(s.b)
  /\ root_page_id' = s.root
  /\ fault' = s.fault
  /\ rwlatch' = s.rwlatch
  /\ UNCHANGED <<net, scen, unpinSeq, leaf_max_size, internal_max_size, threads,
                 exec>>

\* Insert(key, value) by a caller
TreeInsert(key, value) ==
  /\ ~fault
  /\ \E o \in Insert(TreeState, key, value) :
       /\ PagesSuffice(o.s)
       /\ InstallTree(o.s)
       /\ last' = [op |-> "Insert", ok |-> ~o.s.fault /\ o.r, frame |-> NoFrame]
       /\ mirror' = IF ~o.s.fault /\ o.r THEN [mirror EXCEPT ![key] = value]
                    ELSE mirror

\* Remove(key, transaction) by a caller
TreeRemove(key) ==
  /\ ~fault
  /\ \E o \in Remove(TreeState, key, TRUE) :
       /\ InstallTree(o.s)
       /\ last' = [op |-> "Remove", ok |-> ~o.s.fault, frame |-> NoFrame]
       /\ mirror' = IF ~o.s.fault THEN [mirror EXCEPT ![key] = Absent] ELSE mirror

\* GetValue(key, &result) by a caller
TreeGetValue(key) ==
  /\ ~fault
  /\ \E o \in GetValue(TreeState, key) :
       /\ InstallTree(o.s)
       /\ last' = [op |-> "GetValue", ok |-> ~o.s.fault /\ o.r # Absent,
                   frame |-> NoFrame]
       /\ UNCHANGED mirror

NextTree ==
  \/ \E k \in Keys, v \in TreeValues : TreeInsert(k, v)
  \/ \E k \in Keys : TreeRemove(k)
  \/ \E k \in Keys : TreeGetValue(k)

SpecTree == InitTree /\ [][NextTree]_vars

\* the keys the tree holds according to the calls made
PresentKeys == {k \in Keys : mirror[k] # Absent}

\* a round trip: the caller inserts the keys 1 .. n in some order
TripInsert(key, value) ==
  /\ last.op # "Remove"
  /\ mirror[key] = Absent
  /\ TreeInsert(key, value)

\* a round trip: once 1 .. n are in the tree the caller removes them in some
\* order
TripRemove(key) ==
  /\ mirror[key] # Absent
  /\ last.op = "Remove" \/ \E n \in Keys : PresentKeys = 1 .. n
  /\ TreeRemove(key)

NextRoundTrip ==
  \/ \E k \in Keys, v \in TreeValues : TripInsert(k, v)
  \/ \E k \in Keys : TripRemove(k)

SpecRoundTrip == InitTree /\ [][NextRoundTrip]_vars


\* internal_max_size of the tree with wide internal pages
WideInternalMaxSize == 5

\* the keys its callers use are 1 .. WideMaxKey
WideMaxKey == 7

\* largest page id the disk manager hands out to its pool
WideMaxPage == 10

\* a tree whose internal pages hold up to WideInternalMaxSize children
InitTreeWide ==
  TreeInitOn(FitAll(WideMaxPage), WideMaxPage, 1 .. WideMaxKey, LeafMaxSize,
             WideInternalMaxSize, 0)

\* that tree filled and emptied again as in a round trip
SpecTreeWide == InitTreeWide /\ [][NextRoundTrip]_vars

\* pool_size of the pool that cannot hold every page of the tree
SmallPoolSize == 3

\* the keys the callers of the tree on that pool use are 1 .. SmallMaxKey
SmallMaxKey == 2

\* a tree whose pages have to share SmallPoolSize frames
InitTreeSmall ==
  TreeInitOn(SmallPoolSize, TreeMaxPage, 1 .. SmallMaxKey, LeafMaxSize,
             InternalMaxSize, 0)

\* that tree driven by its callers
SpecTreeSmall == InitTreeSmall /\ [][NextTree]_vars

\* -- SpecLeafSplit: the leaf split scenario.  A tree with leaf_max_size
\* SplitLeafMaxSize is filled with the keys 1, 2, ... in ascending order and
\* then emptied in some order.

\* leaf_max_size of the scenario
SplitLeafMaxSize == 4

\* the keys the scenario inserts are 1 .. SplitMaxKey
SplitMaxKey == 5

\* largest page id the disk manager hands out to the scenario's pool
SplitMaxPage == 4

\* the values the scenario inserts are 1 .. SplitMaxValue
SplitMaxValue == 2

InitLeafSplit ==
  TreeInitOn(FitAll(SplitMaxPage), SplitMaxPage, 1 .. SplitMaxKey,
             SplitLeafMaxSize, InternalMaxSize, 0)

\* the scenario inserts the next key
AscendingInsert(value) ==
  /\ last.op # "Remove"
  /\ \E key \in Keys :
       /\ mirror[key] = Absent
       /\ PresentKeys = 1 .. (key - 1)
       /\ TreeInsert(key, value)

NextLeafSplit ==
  \/ \E v \in 1 .. SplitMaxValue : AscendingInsert(v)
  \/ \E k \in Keys : TripRemove(k)

SpecLeafSplit == InitLeafSplit /\ [][NextLeafSplit]_vars

\* -- SpecBorrow: fills and removals on a tree whose leaves hold up to
\* BorrowLeafMaxSize entries, so that an underfull leaf finds a sibling with
\* an entry to spare.

\* leaf_max_size of that tree
BorrowLeafMaxSize == 3

InitBorrow ==
  TreeInitOn(FitAll(TreeMaxPage), TreeMaxPage, TreeKeys, BorrowLeafMaxSize,
             InternalMaxSize, 0)

\* the caller inserts keys in some order, some of them twice, then removes
\* keys it inserted
NextBorrow ==
  \/ \E k \in Keys, v \in TreeValues : last.op # "Remove" /\ TreeInsert(k, v)
  \/ \E k \in PresentKeys : TreeRemove(k)

SpecBorrow == InitBorrow /\ [][NextBorrow]_vars

\* -- SpecTreeFull: the tree on a pool of FullPoolSize frames that it shares
\* with another user, who creates pages and keeps them pinned.

\* pool_size of the shared pool
FullPoolSize == 3

\* the keys the tree's callers insert there are 1 .. FullMaxKey
FullMaxKey == 2

\* largest page id the disk manager hands out to the shared pool
FullMaxPage == 6

InitTreeFull ==
  TreeInitOn(FullPoolSize, FullMaxPage, 1 .. FullMaxKey, LeafMaxSize,
             InternalMaxSize, 0)

\* the other user calls NewPage and keeps the page pinned
OtherNewPage ==
  /\ ~fault
  /\ \E o \in TNewPage(TreeState) :
       /\ o.r # NoFrame
       /\ PagesSuffice(o.s)
       /\ InstallTree(o.s)
       /\ last' = [op |-> "NewPage", ok |-> TRUE, frame |-> o.r]
       /\ UNCHANGED mirror

\* no page of the shared pool is pinned more than MaxPin times
PinsCapped == \A f \in DOMAIN pages : pages[f].pin_count <= MaxPin

NextTreeFull ==
  \/ OtherNewPage
  \/ \E k \in Keys, v \in TreeValues : TreeInsert(k, v) /\ PinsCapped'

SpecTreeFull == InitTreeFull /\ [][NextTreeFull]_vars

\* -- SpecConcurrent: NumThreads threads insert disjoint keys into one tree.
\* A thread can be overtaken where it holds no latch: between IsEmpty() and
\* the call it chooses in Insert, and in FindLeafPage between the read
\* unlatch of the leaf and its write latch.  What a thread does between two
\* such points is one step.

\* the threads that call Insert concurrently are 1 .. NumThreads
NumThreads == 2

\* the keys they insert are 1 .. ConcurrentMaxKey
ConcurrentMaxKey == 4

\* largest page id the disk manager hands out to their pool
ConcurrentMaxPage == 6

InitConcurrent ==
  TreeInitOn(FitAll(ConcurrentMaxPage), ConcurrentMaxPage, 1 .. ConcurrentMaxKey,
             LeafMaxSize, InternalMaxSize, NumThreads)

\* the keys thread t inserts: pairwise disjoint sets
ThreadKeys(t) == {k \in Keys : k % NumThreads = t % NumThreads}

\* the state thread t leaves when it has come to the point `at`
InstallThread(s, t, at) ==
  /\ Install(s.b)
  /\ root_page_id' = s.root
  /\ fault' = s.fault
  /\ rwlatch' = s.rwlatch
  /\ threads' = [threads EXCEPT ![t] = at]
  /\ UNCHANGED <<net, scen, unpinSeq, leaf_max_size, internal_max_size, exec>>

\* Insert returns in thread t
ThreadReturns(o, t) ==
  /\ PagesSuffice(o.s)
  /\ InstallThread(o.s, t, [at |-> "idle"])
  /\ last' = [op |-> "Insert", ok |-> ~o.s.fault /\ o.r, frame |-> NoFrame]
  /\ mirror' = IF ~o.s.fault /\ o.r
                 THEN [mirror EXCEPT ![threads[t].key] = threads[t].value]
               ELSE mirror

\* thread t calls Insert(key, value) and evaluates IsEmpty()
ThreadInsert(t, key, value) ==
  /\ ~fault
  /\ threads[t].at = "idle"
  /\ mirror[key] = Absent
  /\ threads' = [threads EXCEPT ![t] =
                   [at |-> IF IsEmpty(TreeState) THEN "StartNewTree"
                           ELSE "InsertIntoLeaf",
                    key |-> key, value |-> value]]
  /\ UNCHANGED <<pool_size, pages, page_table, free_list, lruList, lruMap,
                 avlbPages, disk, next_page_id, last, net, scen, unpinSeq,
                 root_page_id, leaf_max_size, internal_max_size, fault, mirror,
                 rwlatch, exec>>

\* thread t runs StartNewTree
ThreadStartNewTree(t) ==
  /\ ~fault
  /\ threads[t].at = "StartNewTree"
  /\ \E o \in Bind(StartNewTree(TreeState, threads[t].key, threads[t].value),
                   LAMBDA s1, r1 : Ret(s1, TRUE)) :
       ThreadReturns(o, t)

\* thread t runs InsertIntoLeaf up to the read unlatch of the leaf in
\* FindLeafPage
ThreadFindLeaf(t) ==
  /\ ~fault
  /\ threads[t].at = "InsertIntoLeaf"
  /\ \E o \in Bind(FindLeafDescent(TreeState, threads[t].key, FALSE),
                   LAMBDA s1, page : UnlockPage(s1, page, TRUE)) :
       /\ InstallThread(o.s, t, [threads[t] EXCEPT !.at = "WLatch"] @@
                                  [page |-> o.r])
       /\ UNCHANGED <<last, mirror>>

\* thread t write-latches the leaf and runs the rest of InsertIntoLeaf
ThreadInsertAtLeaf(t) ==
  /\ ~fault
  /\ threads[t].at = "WLatch"
  /\ \E o \in Bind(LockPage(TreeState, threads[t].page, FALSE), LAMBDA s1, page :
                InsertAtLeaf(s1, page, threads[t].key, threads[t].value)) :
       ThreadReturns(o, t)

NextConcurrent ==
  \/ \E t \in DOMAIN threads : \E k \in ThreadKeys(t), v \in TreeValues :
       ThreadInsert(t, k, v)
  \/ \E t \in DOMAIN threads : ThreadStartNewTree(t)
  \/ \E t \in DOMAIN threads : ThreadFindLeaf(t)
  \/ \E t \in DOMAIN threads : ThreadInsertAtLeaf(t)

SpecConcurrent == InitConcurrent /\ [][NextConcurrent]_vars

\* ------------------------------------------------------------------------
\* The executors (src/execution/*.cpp, src/unnamed/part_001)
\* ------------------------------------------------------------------------
\* A table of two integer columns, its heap, the calls made on its first
\* index, a second table that a child executor can scan, and one executor
\* with its plan.  A record id is the slot of the tuple in its heap.

\* a table heap holds at most MaxRows tuples when the executor is constructed
MaxRows == 2

\* the column values are 1 .. MaxColumn
MaxColumn == 2

\* cap on the number of Next calls on one executor
MaxNext == 4

Tuples == {<<c1, c2>> : c1 \in 1 .. MaxColumn, c2 \in 1 .. MaxColumn}

\* the sequences over S of length at most n
SeqsUpTo(S, n) == UNION {[1 .. m -> S] : m \in 0 .. n}

\* the heaps of at most n tuples
Heaps(n) == SeqsUpTo([tuple : Tuples, deleted : {FALSE}], n)

\* the first slot from i on that holds a tuple, or the end of the heap
NextLive(heap, i) ==
  LET live == {j \in i .. Len(heap) : ~heap[j].deleted}
  IN  IF live = {} THEN Len(heap) + 1 ELSE CHOOSE j \in live : \A k \in live : j <= k

\* TableHeap::Begin
TableBegin(heap) == NextLive(heap, 1)

\* TableHeap::End
TableEnd(heap) == Len(heap) + 1

\* TableHeap::InsertTuple: [ok, heap, rid]; a tuple too large for a page is
\* refused
InsertTuple(heap, row) ==
  IF row.fits
    THEN [ok |-> TRUE, rid |-> Len(heap) + 1,
          heap |-> Append(heap, [tuple |-> row.tuple, deleted |-> FALSE])]
  ELSE [ok |-> FALSE, rid |-> 0, heap |-> heap]

\* TableHeap::ApplyDelete
ApplyDelete(heap, rid) == [heap EXCEPT ![rid].deleted = TRUE]

\* Tuple::KeyFromTuple: the columns key_attrs of the tuple
KeyFromTuple(tuple, key_attrs) == [i \in 1 .. Len(key_attrs) |-> tuple[key_attrs[i]]]

\* a predicate `column col = val`; col = 0 is the null predicate
Predicates ==
  {[col |-> 0, val |-> 0]} \cup [col : 1 .. 2, val : 1 .. MaxColumn]

\* AbstractExpression::Evaluate of a comparison
Evaluate(pred, tuple) == tuple[pred.col] = pred.val

\* the test of SeqScanExecutor::Next with every tuple accepted
PredicateIgnored(pred, tuple) == TRUE

\* the test of SeqScanExecutor::Next: no predicate, or a predicate that
\* evaluates to true
PredicatePasses(pred, tuple) == pred.col = 0 \/ Evaluate(pred, tuple)

\* the heap with table oid `oid`
HeapOf(e, oid) == IF oid = "table" THEN e.table ELSE e.source

\* SeqScanExecutor::Init: table_iter_
SeqScanInit(e, oid) == TableBegin(HeapOf(e, oid))

RECURSIVE SeqScanNext(_, _, _)
\* SeqScanExecutor::Next: [ok, tuple, rid, table_iter]
SeqScanNext(heap, pred, table_iter) ==
  IF table_iter = TableEnd(heap)
    THEN [ok |-> FALSE, tuple |-> <<>>, rid |-> 0, table_iter |-> table_iter]
  ELSE LET tuple == heap[table_iter].tuple
           rid == table_iter
           advanced == NextLive(heap, table_iter + 1)
       IN  IF PredicatePasses(pred, tuple)
             THEN [ok |-> TRUE, tuple |-> tuple, rid |-> rid, table_iter |-> advanced]
           ELSE SeqScanNext(heap, pred, advanced)

\* Catalog::GetTableIndexes(name)[0]: the set of values index_info_ can get.
\* Element 0 of an empty vector is read outside its storage: the read
\* faults, or it yields whatever the memory holds.
FirstIndex(e) ==
  IF e.nindexes > 0 THEN {[index_info |-> "first", crashed |-> FALSE]}
  ELSE {[index_info |-> "wild", crashed |-> FALSE],
        [index_info |-> "wild", crashed |-> TRUE]}

\* a call on index_info_->index_: the set of outcomes [e, crashed].  Through
\* a wild pointer the call faults or runs on memory that is no index.
IndexCall(e, op, key, rid) ==
  IF e.index_info = "first"
    THEN {[e |-> [e EXCEPT !.index_calls =
                    Append(@, [op |-> op, key |-> key, rid |-> rid])],
           crashed |-> FALSE]}
  ELSE {[e |-> e, crashed |-> TRUE], [e |-> e, crashed |-> FALSE]}

\* what Next hands back to its caller
Returned(e, ok, tuple, rid) ==
  [e EXCEPT !.out = Append(@, [ok |-> ok, tuple |-> tuple, rid |-> rid])]

\* InsertExecutor::Init and DeleteExecutor::Init: the set of outcomes
\* [e, crashed]; child_oid is the table the child plan scans, "" without a
\* child
ExecutorInit(e, child_oid) ==
  {[e |-> [e EXCEPT !.inited = TRUE, !.index_info = i.index_info,
                    !.table_iter = IF child_oid = "" \/ i.crashed THEN 0
                                   ELSE SeqScanInit(e, child_oid)],
    crashed |-> i.crashed] : i \in FirstIndex(e)}

RECURSIVE InsertRaw(_, _)
\* InsertExecutor::Next for a raw insert, from RawValuesAt(i) on
InsertRaw(e, i) ==
  IF i > Len(e.plan.raw_values)
    THEN {[e |-> Returned(e, FALSE, <<>>, 0), crashed |-> FALSE]}
  ELSE LET tuple_to_insert == e.plan.raw_values[i]
           r == InsertTuple(e.table, tuple_to_insert)
       IN  IF r.ok
             THEN UNION {IF c.crashed THEN {c} ELSE InsertRaw(c.e, i + 1) :
                           c \in IndexCall([e EXCEPT !.table = r.heap], "InsertEntry",
                                           tuple_to_insert.tuple, r.rid)}
           ELSE {[e |-> Returned(e, FALSE, <<>>, 0), crashed |-> FALSE]}

RECURSIVE InsertFromChild(_)
\* InsertExecutor::Next for an insert of the tuples of its child
InsertFromChild(e) ==
  LET n == SeqScanNext(e.source, e.plan.pred, e.table_iter)
      e1 == [e EXCEPT !.table_iter = n.table_iter]
      r == InsertTuple(e1.table, [tuple |-> n.tuple, fits |-> TRUE])
  IN  IF ~n.ok THEN {[e |-> Returned(e1, FALSE, <<>>, 0), crashed |-> FALSE]}
      ELSE UNION {IF c.crashed THEN {c} ELSE InsertFromChild(c.e) :
                    c \in IndexCall([e1 EXCEPT !.table = r.heap], "InsertEntry",
                                    KeyFromTuple(n.tuple, e.key_attrs), r.rid)}

\* InsertExecutor::Next
InsertNext(e) == IF e.plan.raw THEN InsertRaw(e, 1) ELSE InsertFromChild(e)

RECURSIVE DeleteNext(_)
\* DeleteExecutor::Next
DeleteNext(e) ==
  LET n == SeqScanNext(e.table, e.plan.pred, e.table_iter)
      e1 == [e EXCEPT !.table_iter = n.table_iter]
  IN  IF ~n.ok THEN {[e |-> Returned(e1, FALSE, <<>>, 0), crashed |-> FALSE]}
      ELSE UNION {IF c.crashed THEN {c} ELSE DeleteNext(c.e) :
                    c \in IndexCall([e1 EXCEPT !.table = ApplyDelete(@, n.rid)],
                                    "DeleteEntry",
                                    KeyFromTuple(n.tuple, e.key_attrs), n.rid)}

\* the rows a raw insert can be given
Rows == [tuple : Tuples, fits : BOOLEAN]

\* the columns an index on the table can have as its key
KeyAttrs == {<<1>>, <<2>>}

\* the plans of a sequential scan of the table
SeqScanPlans ==
  [pred : Predicates, raw : {FALSE}, raw_values : {<<>>}, group_by : {FALSE},
   having : {0}]

\* an executor of the given kind constructed for the plan over the tables
NewExecutor(kind, plan, table, source, nindexes, key_attrs) ==
  [kind |-> kind, plan |-> plan, table |-> table, source |-> source,
   nindexes |-> nindexes, key_attrs |-> key_attrs, original |-> table,
   index_calls |-> <<>>, inited |-> FALSE, table_iter |-> 0,
   index_info |-> "nullptr", aht |-> <<>>, aht_iterator |-> 1, out |-> <<>>]

\* the executor acts: everything else stays
Executed(e, crashed) ==
  /\ exec' = e
  /\ fault' = crashed
  /\ UNCHANGED <<pool_size, pages, page_table, free_list, lruList, lruMap,
                 avlbPages, disk, next_page_id, last, net, scen, unpinSeq,
                 root_page_id, leaf_max_size, internal_max_size, mirror,
                 rwlatch, threads>>

\* a SeqScanExecutor is constructed
SeqScanExecutor(plan, table) ==
  /\ exec.kind = "none"
  /\ Executed(NewExecutor("SeqScan", plan, table, <<>>, 1, <<1>>), FALSE)

SeqScanExecutorInit ==
  /\ ~fault
  /\ exec.kind = "SeqScan" /\ ~exec.inited
  /\ Executed([exec EXCEPT !.inited = TRUE,
                           !.table_iter = SeqScanInit(exec, "table")], FALSE)

SeqScanExecutorNext ==
  /\ ~fault
  /\ exec.kind = "SeqScan" /\ exec.inited
  /\ Len(exec.out) < MaxNext
  /\ LET r == SeqScanNext(exec.table, exec.plan.pred, exec.table_iter)
     IN  Executed([exec EXCEPT !.table_iter = r.table_iter,
                               !.out = Append(@, [ok |-> r.ok, tuple |-> r.tuple,
                                                  rid |-> r.rid])], FALSE)

\* an InsertExecutor is constructed; a raw insert has no child table
InsertExecutor(plan, table, source, nindexes, key_attrs) ==
  /\ exec.kind = "none"
  /\ plan.raw => source = <<>>
  /\ Executed(NewExecutor("Insert", plan, table, source, nindexes, key_attrs), FALSE)

InsertExecutorInit ==
  /\ ~fault
  /\ exec.kind = "Insert" /\ ~exec.inited
  /\ \E o \in ExecutorInit(exec, IF exec.plan.raw THEN "" ELSE "source") :
       Executed(o.e, o.crashed)

InsertExecutorNext ==
  /\ ~fault
  /\ exec.kind = "Insert" /\ exec.inited
  /\ Len(exec.out) < MaxNext
  /\ \E o \in InsertNext(exec) : Executed(o.e, o.crashed)

\* the plans of a delete: those of the scan that is its child
DeletePlans == SeqScanPlans

\* a DeleteExecutor is constructed
DeleteExecutor(plan, table, nindexes, key_attrs) ==
  /\ exec.kind = "none"
  /\ Executed(NewExecutor("Delete", plan, table, <<>>, nindexes, key_attrs), FALSE)

DeleteExecutorInit ==
  /\ ~fault
  /\ exec.kind = "Delete" /\ ~exec.inited
  /\ \E o \in ExecutorInit(exec, "table") : Executed(o.e, o.crashed)

DeleteExecutorNext ==
  /\ ~fault
  /\ exec.kind = "Delete" /\ exec.inited
  /\ Len(exec.out) < MaxNext
  /\ \E o \in DeleteNext(exec) : Executed(o.e, o.crashed)

\* -- AggregationExecutor: the plan groups by column 1 (group_by) or not at
\* all, aggregates column 2 with count, sum, min and max, and has the HAVING
\* predicate `sum >= having`, or none (having = 0).

\* stands for the largest int, from which the initial min and max are taken:
\* it is larger than every column value
INT_MAX == MaxColumn + 1

\* AggregationExecutor::MakeKey
MakeKey(plan, tuple) == IF plan.group_by THEN <<tuple[1]>> ELSE <<>>

\* AggregationExecutor::MakeVal
MakeVal(plan, tuple) == tuple[2]

\* SimpleAggregationHashTable::GenerateInitialAggregateValue
InitialAggregateValue == [count |-> 0, sum |-> 0, min |-> INT_MAX, max |-> -INT_MAX]

\* SimpleAggregationHashTable::CombineAggregateValues
CombineAggregateValues(result, input) ==
  [count |-> result.count + 1, sum |-> result.sum + input,
   min |-> IF input < result.min THEN input ELSE result.min,
   max |-> IF input > result.max THEN input ELSE result.max]

\* SimpleAggregationHashTable::InsertCombine on the table ht, a function
\* from its keys to their aggregates
InsertCombine(ht, agg_key, agg_val) ==
  LET had == IF agg_key \in DOMAIN ht THEN ht[agg_key] ELSE InitialAggregateValue
  IN  [k \in DOMAIN ht \cup {agg_key} |->
         IF k = agg_key THEN CombineAggregateValues(had, agg_val) ELSE ht[k]]

RECURSIVE AggregationBuild(_, _, _)
\* the while loop of AggregationExecutor::Init: the hash table once the
\* child is exhausted
AggregationBuild(e, ht, table_iter) ==
  LET n == SeqScanNext(e.table, e.plan.pred, table_iter)
  IN  IF ~n.ok THEN ht
      ELSE AggregationBuild(e, InsertCombine(ht, MakeKey(e.plan, n.tuple),
                                             MakeVal(e.plan, n.tuple)),
                            n.table_iter)

\* AggregationExecutor::Init: the set of outcomes.  aht is the table in the
\* order its iterator walks it from Begin(), which is any order of its keys.
AggregationInit(e) ==
  LET ht == AggregationBuild(e, <<>>, SeqScanInit(e, "table"))
      n == Cardinality(DOMAIN ht)
  IN  {[e EXCEPT !.inited = TRUE, !.table_iter = TableEnd(e.table),
                 !.aht = [i \in 1 .. n |-> [key |-> order[i], val |-> ht[order[i]]]],
                 !.aht_iterator = 1]
         : order \in {f \in [1 .. n -> DOMAIN ht] :
                        \A i, j \in 1 .. n : f[i] = f[j] => i = j}}

\* the test of AggregationExecutor::Next with every group accepted
HavingIgnored(plan, group_bys, aggregates) == TRUE

\* the test of AggregationExecutor::Next: no HAVING, or a HAVING that
\* evaluates to true
HavingPasses(plan, group_bys, aggregates) ==
  plan.having = 0 \/ aggregates.sum >= plan.having

RECURSIVE AggregationNext(_)
\* AggregationExecutor::Next
AggregationNext(e) ==
  IF e.aht_iterator = Len(e.aht) + 1 THEN Returned(e, FALSE, <<>>, 0)
  ELSE LET group_bys == e.aht[e.aht_iterator].key
           aggregates == e.aht[e.aht_iterator].val
           advanced == [e EXCEPT !.aht_iterator = @ + 1]
       IN  IF HavingPasses(e.plan, group_bys, aggregates)
             THEN Returned(advanced, TRUE,
                           [group_bys |-> group_bys, aggregates |-> aggregates], 0)
           ELSE AggregationNext(advanced)

\* the plans of an aggregation over a scan of the table
AggregationPlans ==
  [pred : Predicates, raw : {FALSE}, raw_values : {<<>>}, group_by : BOOLEAN,
   having : 0 .. MaxColumn]

\* an AggregationExecutor is constructed
AggregationExecutor(plan, table) ==
  /\ exec.kind = "none"
  /\ Executed(NewExecutor("Aggregation", plan, table, <<>>, 1, <<1>>), FALSE)

AggregationExecutorInit ==
  /\ ~fault
  /\ exec.kind = "Aggregation" /\ ~exec.inited
  /\ \E e \in AggregationInit(exec) : Executed(e, FALSE)

AggregationExecutorNext ==
  /\ ~fault
  /\ exec.kind = "Aggregation" /\ exec.inited
  /\ Len(exec.out) < MaxNext
  /\ Executed(AggregationNext(exec), FALSE)

\* SpecQuery: a sequential scan or an aggregation is constructed over some
\* table and run
NextQuery ==
  \/ /\ exec.kind = "none"
     /\ \E plan \in SeqScanPlans, table \in Heaps(MaxRows) : SeqScanExecutor(plan, table)
  \/ SeqScanExecutorInit
  \/ SeqScanExecutorNext
  \/ /\ exec.kind = "none"
     /\ \E plan \in AggregationPlans, table \in Heaps(MaxRows) :
          AggregationExecutor(plan, table)
  \/ AggregationExecutorInit
  \/ AggregationExecutorNext

SpecQuery == Init /\ [][NextQuery]_vars

\* a raw insert is given at most MaxRawRows rows
MaxRawRows == 1

\* the plans of an insert
InsertPlans ==
  [pred : {[col |-> 0, val |-> 0]}, raw : {TRUE},
   raw_values : SeqsUpTo(Rows, MaxRawRows), group_by : {FALSE}, having : {0}]
  \cup [pred : Predicates, raw : {FALSE}, raw_values : {<<>>}, group_by : {FALSE},
        having : {0}]

\* SpecModify: an insert or a delete is constructed over some table, with or
\* without an index, and run
NextModify ==
  \/ /\ exec.kind = "none"
     /\ \E plan \in InsertPlans, table \in Heaps(1), source \in Heaps(MaxRows),
           nindexes \in 0 .. 1, key_attrs \in KeyAttrs :
          InsertExecutor(plan, table, source, nindexes, key_attrs)
  \/ InsertExecutorInit
  \/ InsertExecutorNext
  \/ /\ exec.kind = "none"
     /\ \E plan \in DeletePlans, table \in Heaps(MaxRows), nindexes \in 0 .. 1,
           key_attrs \in KeyAttrs :
          DeleteExecutor(plan, table, nindexes, key_attrs)
  \/ DeleteExecutorInit
  \/ DeleteExecutorNext

SpecModify == Init /\ [][NextModify]_vars

\* ------------------------------------------------------------------------
\* Properties
\* ------------------------------------------------------------------------

\* the fields of the buffer pool a call can change
bpmFields ==
  <<pages, page_table, free_list, lruList, lruMap, avlbPages, disk, next_page_id>>

\* the frames page_table points to
MappedFrames == {page_table[p] : p \in MapKeys(page_table)}

\* C1: no call replaces the page held in a frame whose pin_count is greater
\* than 0 (a pinned frame is never the eviction victim).
C1_PinnedFrameNeverReplaced ==
  [][\A f \in DOMAIN pages :
       pages[f].pin_count > 0 => pages'[f].page_id = pages[f].page_id]_vars

\* C2: every page_table entry refers to a frame that stores that page id, and
\* no two page ids map to the same frame.
C2_PageTableConsistent ==
  /\ \A p \in MapKeys(page_table) : pages[page_table[p]].page_id = p
  /\ \A p, q \in MapKeys(page_table) : p # q => page_table[p] # page_table[q]

\* C3: a frame in free_list is the target of no page_table entry, is not
\* tracked by the replacer, and is in free_list once.
C3_FreeListDisjoint ==
  /\ \A i \in 1 .. Len(free_list) :
       /\ free_list[i] \notin MappedFrames
       /\ ~MapHas(lruMap, free_list[i])
  /\ \A i, j \in 1 .. Len(free_list) : i # j => free_list[i] # free_list[j]

\* C4: when a call reuses a frame (one that is not in free_list) that holds a
\* dirty page q, the frame's content is on disk under q once the call returns.
C4_DirtyWrittenBeforeReuse ==
  [][\A f \in DOMAIN pages :
       (/\ pages[f].is_dirty
        /\ pages[f].page_id # INVALID_PAGE_ID
        /\ f \notin SeqToSet(free_list)
        /\ pages'[f].page_id # pages[f].page_id)
       => disk'[pages[f].page_id] = pages[f].data]_vars

\* C5: for every resident page, the frame's pin_count equals the number of
\* successful fetches/news of the page minus the number of its successful
\* unpins since it was loaded, and is not negative.
C5_PinCountIsNetCount ==
  \A p \in MapKeys(page_table) :
    /\ pages[page_table[p]].pin_count = net[p]
    /\ pages[page_table[p]].pin_count >= 0

\* C6: unpin_page(p, is_dirty) returns false and changes nothing when p is not
\* in page_table or its pin_count is 0; otherwise it returns true, decrements
\* pin_count by one, ORs is_dirty into the dirty flag, touches nothing else
\* of the pool, and the frame enters the replacer exactly when pin_count
\* reaches 0.
C6_UnpinContract ==
  [][\A p \in PageUniverse, d \in BOOLEAN :
       UnpinPageCall(p, d) =>
         IF ~MapHas(page_table, p) \/ pages[page_table[p]].pin_count = 0
           THEN ~last'.ok /\ UNCHANGED bpmFields
         ELSE LET f == page_table[p]
              IN  /\ last'.ok
                  /\ pages'[f].pin_count = pages[f].pin_count - 1
                  /\ pages'[f].is_dirty = (pages[f].is_dirty \/ d)
                  /\ pages'[f].page_id = pages[f].page_id
                  /\ pages'[f].data = pages[f].data
                  /\ \A g \in DOMAIN pages : g # f => pages'[g] = pages[g]
                  /\ UNCHANGED <<page_table, free_list, disk, next_page_id>>
                  /\ IF pages'[f].pin_count = 0
                       THEN /\ MapHas(lruMap', f)
                            /\ lruMap'[f] \in 1 .. Len(lruList')
                            /\ lruList'[lruMap'[f]] =
                                 [frame_id |-> f, isPin |-> FALSE]
                       ELSE UNCHANGED <<lruList, lruMap, avlbPages>>]_vars

\* C6 happens: an unpin has returned true, its frame is at pin_count 0, dirty,
\* and in the replacer.
C6_Witness ==
  /\ last.op = "unpin" /\ last.ok
  /\ \E f \in DOMAIN pages :
       /\ pages[f].pin_count = 0 /\ pages[f].is_dirty
       /\ MapHas(lruMap, f)

C8_FlushAllCleans ==
  last.op = "flush_all" =>
    \A p \in MapKeys(page_table) :
      /\ ~pages[page_table[p]].is_dirty
      /\ disk[p] = pages[page_table[p]].data

\* C9: in the pool_size = 2 scenario the replacer holds exactly 1 candidate
\* after the sixth call, and the fetch of page 3 succeeds, evicts page 1 and
\* leaves page 2 resident.
C9_Scenario ==
  /\ scen = Len(Scenario) - 1 => LruSize(Replacer) = 1
  /\ scen = Len(Scenario) =>
       /\ last.ok
       /\ ~MapHas(page_table, 1)
       /\ MapHas(page_table, 2) /\ pages[page_table[2]].page_id = 2
       /\ MapHas(page_table, 3) /\ pages[page_table[3]].page_id = 3

\* C10: a Victim that succeeds returns the least-recently-unpinned frame of
\* the unpinned frames, Size() drops by one, and the frame is no longer in
\* the replacer.
C10_VictimIsLeastRecentlyUnpinned ==
  [][(LruVictimCall /\ last'.ok) =>
       /\ unpinSeq # <<>>
       /\ last'.frame = Head(unpinSeq)
       /\ avlbPages' = avlbPages - 1
       /\ ~MapHas(lruMap', last'.frame)
       /\ \A i \in 1 .. Len(lruList') : lruList'[i].frame_id # last'.frame]_vars

\* the list nodes that hold frame f, in list order
EntriesOf(l, f) == SelectSeq(l, LAMBDA e : e.frame_id = f)

\* C11: Size() equals the number of replacer entries whose pinned flag is
\* false, and is never negative.
C11_SizeCountsUnpinnedEntries ==
  /\ LruSize(Replacer) =
       Cardinality({i \in 1 .. Len(lruList) : ~lruList[i].isPin})
  /\ LruSize(Replacer) >= 0

\* C12: a Victim that succeeds returns a frame that was unpinned and has not
\* been pinned since, and Pin(f) neither removes nor changes the entry of any
\* other frame.
C12_PinnedFrameNotVictim ==
  [][/\ (LruVictimCall /\ last'.ok) => last'.frame \in SeqToSet(unpinSeq)
     /\ \A f \in LruFrames :
          LruPinCall(f) =>
            \A g \in LruFrames \ {f} :
              /\ EntriesOf(lruList', g) = EntriesOf(lruList, g)
              /\ MapHas(lruMap', g) = MapHas(lruMap, g)]_vars

\* GetValue(key) in state s returns value (Absent: it returns false)
Finds(s, key, value) == \A o \in GetValue(s, key) : ~o.s.fault /\ o.r = value

\* C13: a key whose Insert returned true is found by GetValue with the value
\* inserted, whatever inserts and removes of other keys came after.
C13_InsertLookup ==
  ~fault => \A k \in Keys : mirror[k] # Absent => Finds(TreeState, k, mirror[k])

\* C14: Insert of a key that is in the tree returns false, leaves the stored
\* value, every other entry and the tree structure (the root and every
\* page's content, frame by frame) unchanged, and allocates no page.
C14_DuplicateInsertRefused ==
  ~fault =>
    \A k \in Keys : mirror[k] # Absent =>
      \A v \in TreeValues :
        \A o \in Insert(TreeState, k, v) :
          /\ ~o.s.fault
          /\ o.r = FALSE
          /\ o.s.root = root_page_id
          /\ \A f \in DOMAIN pages : o.s.b.pages[f].data = pages[f].data
          /\ o.s.b.next_page_id = next_page_id

\* C15: after Remove(k) of a key that was present GetValue(k) reports
\* absent, and every other key that was present is still found with its
\* value.
C15_RemoveLookup ==
  ~fault =>
    \A k \in Keys :
      (mirror[k] # Absent /\ Finds(TreeState, k, mirror[k])) =>
        \A o \in Remove(TreeState, k, TRUE) :
          ~o.s.fault =>
            /\ Finds(o.s, k, Absent)
            /\ \A j \in Keys \ {k} :
                 \A v \in TreeValues : Finds(TreeState, j, v) => Finds(o.s, j, v)

\* C16: inserting the keys 1 .. N in any order and then removing all of them
\* in any order runs to its end, leaves IsEmpty() true and leaves every
\* frame free or unpinned.
C16_RoundTrip ==
  /\ ~fault
  /\ (last.op = "Remove" /\ PresentKeys = {}) =>
       /\ IsEmpty(TreeState)
       /\ \A f \in DOMAIN pages :
            f \in SeqToSet(free_list) \/ pages[f].pin_count = 0

\* the B+tree page a FetchPage of page p shows
PageContent(p) ==
  IF MapHas(page_table, p) THEN pages[page_table[p]].data ELSE disk[p]

\* the child page ids of page p
ChildrenOf(p) ==
  IF p \in DOMAIN page_table /\ PageContent(p).page_type = "INTERNAL"
    THEN SeqToSet(Children(PageContent(p).array))
  ELSE {}

RECURSIVE PagesUnder(_, _)
\* the pages of the subtree of page p, followed for at most fuel levels
PagesUnder(p, fuel) ==
  {p} \cup IF fuel = 0 THEN {}
           ELSE UNION {PagesUnder(c, fuel - 1) : c \in ChildrenOf(p)}

\* the pages reachable from the root
TreePageSet ==
  IF IsEmpty(TreeState) THEN {} ELSE PagesUnder(root_page_id, next_page_id)

\* C17: after every completed Insert or Remove every page reachable from
\* the root has min_size <= size <= max_size, the root at least 2 children
\* (internal) or 1 entry (leaf).
C17_SizeInvariant ==
  ~fault =>
    \A p \in TreePageSet :
      LET n == IF p \in DOMAIN page_table THEN PageContent(p) ELSE ZeroNode
          low == IF p # root_page_id THEN GetMinSize(n)
                 ELSE IF IsLeafPage(n) THEN 1 ELSE 2
      IN  low <= GetSize(n) /\ GetSize(n) <= n.max_size

\* C18: after every completed Insert or Remove the keys at indexes
\* 1 .. size-1 of every internal page are in ascending order and the keys of
\* every leaf are strictly increasing.
C18_KeyOrder ==
  ~fault =>
    \A p \in TreePageSet :
      LET n == IF p \in DOMAIN page_table THEN PageContent(p) ELSE ZeroNode
      IN  IF IsLeafPage(n)
            THEN \A i \in 0 .. (GetSize(n) - 2) : KeyAt(n, i) < KeyAt(n, i + 1)
          ELSE \A i \in 1 .. (GetSize(n) - 2) : KeyAt(n, i) <= KeyAt(n, i + 1)

\* the keys stored in the leaves of the subtree of page p
KeysUnder(p) ==
  UNION {IF q \in DOMAIN page_table /\ IsLeafPage(PageContent(q))
           THEN {PageContent(q).array[i].key : i \in 1 .. GetSize(PageContent(q))}
         ELSE {} : q \in PagesUnder(p, next_page_id)}

\* C19: after every completed Insert or Remove every non-root page's
\* parent_page_id names an internal page holding an entry for it, the keys
\* under child i >= 1 of an internal page lie in [keys[i], keys[i+1]), and
\* the root's parent_page_id is INVALID_PAGE_ID.
C19_ParentSeparator ==
  ~fault =>
    \A p \in TreePageSet :
      LET n == IF p \in DOMAIN page_table THEN PageContent(p) ELSE ZeroNode
      IN  /\ IF p = root_page_id THEN n.parent_page_id = INVALID_PAGE_ID
             ELSE p \in ChildrenOf(n.parent_page_id)
          /\ n.page_type = "INTERNAL" =>
               \A i \in 1 .. (GetSize(n) - 1) :
                 \A k \in KeysUnder(ValueAt(n, i)) :
                   /\ KeyAt(n, i) <= k
                   /\ i + 1 < GetSize(n) => k < KeyAt(n, i + 1)

RECURSIVE LeavesInOrder(_, _)
RECURSIVE LeavesOfChildren(_, _)
\* the leaves of the subtree of page p, left to right
LeavesInOrder(p, fuel) ==
  IF p \notin DOMAIN page_table THEN <<>>
  ELSE IF IsLeafPage(PageContent(p)) THEN <<p>>
  ELSE IF PageContent(p).page_type = "INTERNAL" /\ fuel > 0
    THEN LeavesOfChildren(Children(PageContent(p).array), fuel - 1)
  ELSE <<>>

\* the leaves under a sequence of pages, left to right
LeavesOfChildren(children, fuel) ==
  IF children = <<>> THEN <<>>
  ELSE LeavesInOrder(Head(children), fuel) \o LeavesOfChildren(Tail(children), fuel)

RECURSIVE ChainFrom(_, _)
\* the pages visited by following next_page_id from page p, for at most
\* fuel steps; a link that leaves the leaves is recorded as it is
ChainFrom(p, fuel) ==
  IF p = INVALID_PAGE_ID \/ fuel = 0 THEN <<>>
  ELSE IF p \notin DOMAIN page_table \/ ~IsLeafPage(PageContent(p)) THEN <<p>>
  ELSE <<p>> \o ChainFrom(PageContent(p).next_page_id, fuel - 1)

\* C20: after every completed Insert or Remove the chain of next_page_id
\* from the leftmost leaf is the tree's leaves in the order of an in-order
\* traversal and ends with INVALID_PAGE_ID.
C20_LeafChain ==
  (~fault /\ ~IsEmpty(TreeState)) =>
    LET leaves == LeavesInOrder(root_page_id, next_page_id)
    IN  /\ leaves # <<>>
        /\ ChainFrom(Head(leaves), next_page_id + 1) = leaves

\* the entries read are exactly the entries of the keys in `wanted`, in
\* ascending key order, each once
ReadsExactly(read, wanted) ==
  /\ Len(read) = Cardinality(wanted)
  /\ \A i \in 1 .. (Len(read) - 1) : read[i].key < read[i + 1].key
  /\ \A k \in wanted : \E i \in 1 .. Len(read) :
       read[i] = [key |-> k, value |-> mirror[k]]

\* C21: for a non-empty tree, begin() and ++ until isEnd() read every
\* entry of the tree in ascending key order, each exactly once, the largest
\* key included.
C21_IteratorComplete ==
  (~fault /\ PresentKeys # {}) =>
    \A o \in Bind(begin(TreeState), LAMBDA s1, it : Scan(s1, it, Cardinality(Keys) + 1)) :
      ~o.s.fault /\ ReadsExactly(o.r, PresentKeys)

\* C22: Begin(key) and ++ until isEnd() read exactly the entries with a key
\* >= key, in ascending order, also when the first of them lies in the leaf
\* after the one the descent reaches.
C22_RangeScan ==
  ~fault =>
    \A k \in Keys :
      LET wanted == {j \in PresentKeys : j >= k}
      IN  wanted # {} =>
            \A o \in Bind(Begin(TreeState, k),
                          LAMBDA s1, it : Scan(s1, it, Cardinality(Keys) + 1)) :
              ~o.s.fault /\ ReadsExactly(o.r, wanted)

\* the number of latches on the pages in pgs that the thread holds after
\* the first i calls of events
LatchesHeld(events, i, pgs) ==
  Cardinality({j \in 1 .. i : events[j].ev \in {"RLatch", "WLatch"}
                              /\ events[j].page \in pgs})
    - Cardinality({j \in 1 .. i : events[j].ev \in {"RUnlatch", "WUnlatch"}
                                  /\ events[j].page \in pgs})

\* C23: during FindLeafPage the child's latch is acquired before the
\* parent's latch is released: from the latching of the root to the return
\* of the leaf the thread holds at least one page latch.
C23_LatchCrabbing ==
  (~fault /\ ~IsEmpty(TreeState)) =>
    \A k \in Keys :
      \A o \in FindLeafPage(TreeState, k, FALSE, TRUE) :
        ~o.s.fault =>
          \A i \in 1 .. Len(o.s.events) :
            o.s.events[i].ev \in {"RUnlatch", "WUnlatch"} =>
              LatchesHeld(o.s.events, i, DOMAIN page_table) >= 1

\* C24: when the threads have inserted pairwise disjoint keys concurrently
\* and all of them have finished, every inserted key is found by GetValue
\* with its value and the tree invariants hold.
C24_ConcurrentInserts ==
  (~fault /\ \A t \in DOMAIN threads : threads[t].at = "idle") =>
    /\ \A k \in Keys : mirror[k] # Absent => Finds(TreeState, k, mirror[k])
    /\ \A p \in TreePageSet :
         LET n == IF p \in DOMAIN page_table THEN PageContent(p) ELSE ZeroNode
         IN  /\ GetSize(n) <= n.max_size
             /\ p # root_page_id => GetMinSize(n) <= GetSize(n)
             /\ IF p = root_page_id THEN n.parent_page_id = INVALID_PAGE_ID
                ELSE p \in ChildrenOf(n.parent_page_id)
             /\ \A i \in 1 .. (GetSize(n) - 2) : KeyAt(n, i) < KeyAt(n, i + 1)
    /\ ~IsEmpty(TreeState) =>
         LET leaves == LeavesInOrder(root_page_id, next_page_id)
         IN  leaves # <<>> /\ ChainFrom(Head(leaves), next_page_id + 1) = leaves

\* a descent with these latch calls is write-crabbed: it takes write latches
\* only, and it releases a latch only while it holds the write latch of
\* another page that was Safe when latched
WriteCrabbed(events, Safe(_)) ==
  /\ \A i \in 1 .. Len(events) : events[i].ev \notin {"RLatch", "RUnlatch"}
  /\ \A i \in 1 .. Len(events) : events[i].ev = "WUnlatch" =>
       \E j \in 1 .. (i - 1) :
         /\ events[j].ev = "WLatch"
         /\ events[j].page # events[i].page
         /\ LatchesHeld(events, i, {events[j].page}) >= 1
         /\ Safe(events[j])

\* C25: the descent of Insert and of Remove, FindLeafPage for a write, holds
\* write latches and releases the latch of an ancestor only once the current
\* node is safe: size < max_size for Insert, size > min_size for Remove.
C25_WriteCrabbing ==
  (~fault /\ ~IsEmpty(TreeState)) =>
    \A k \in Keys : \A o \in FindLeafPage(TreeState, k, FALSE, FALSE) :
      ~o.s.fault =>
        /\ WriteCrabbed(o.s.events, LAMBDA e : e.size < e.max_size)
        /\ WriteCrabbed(o.s.events, LAMBDA e : e.size > (e.max_size + 1) \div 2)

\* C26: after every completed tree operation the root page id recorded for
\* the index in the header page equals root_page_id_.
C26_RootPersisted ==
  ~fault => PageContent(HEADER_PAGE_ID).root_id = root_page_id

\* C27: Remove called with a null transaction completes without failure and
\* removes the key, also when it empties the tree or merges pages so that a
\* page is deleted.
C27_NullTransaction ==
  ~fault =>
    \A k \in PresentKeys : \A o \in Remove(TreeState, k, FALSE) :
      ~o.s.fault /\ Finds(o.s, k, Absent)

\* in these pool and latch calls no page is unpinned while its latch is held
UnlatchedWhenUnpinned(events) ==
  \A i \in 1 .. Len(events) :
    events[i].ev = "Unpin" => LatchesHeld(events, i, {events[i].page}) = 0

\* C28: in every tree operation (GetValue, Insert, Remove, begin, Begin) the
\* unpin of a page happens after the release of its latch, never before.
C28_UnlatchBeforeUnpin ==
  ~fault =>
    /\ \A o \in begin(TreeState) : UnlatchedWhenUnpinned(o.s.events)
    /\ \A k \in Keys :
         /\ \A o \in GetValue(TreeState, k) : UnlatchedWhenUnpinned(o.s.events)
         /\ \A o \in Begin(TreeState, k) : UnlatchedWhenUnpinned(o.s.events)
         /\ \A o \in Remove(TreeState, k, TRUE) : UnlatchedWhenUnpinned(o.s.events)
         /\ \A v \in TreeValues :
              \A o \in Insert(TreeState, k, v) : UnlatchedWhenUnpinned(o.s.events)

\* the pin count of page p in the pool b: 0 for a page that is not resident
PinCountOf(b, p) ==
  IF MapHas(b.page_table, p) THEN b.pages[b.page_table[p]].pin_count ELSE 0

\* the operation with outcome o returned with every page's pin count as it
\* was before, each FetchPage or NewPage of a page matched by one UnpinPage
PinsBalanced(o) ==
  ~o.s.fault =>
    \A p \in 0 .. (o.s.b.next_page_id - 1) :
      /\ PinCountOf(o.s.b, p) = PinCountOf(Bpm, p)
      /\ Cardinality({i \in 1 .. Len(o.s.events) :
                        o.s.events[i].ev \in {"Fetch", "New"} /\ o.s.events[i].page = p})
           = Cardinality({i \in 1 .. Len(o.s.events) :
                            o.s.events[i].ev = "Unpin" /\ o.s.events[i].page = p})

\* C29: every tree operation (GetValue, Insert, Remove, begin, Begin) returns
\* with every page's pin count equal to its value before the operation; each
\* fetch or new is matched by exactly one unpin.
C29_PinBalance ==
  ~fault =>
    /\ ~IsEmpty(TreeState) => \A o \in begin(TreeState) : PinsBalanced(o)
    /\ \A k \in Keys :
         /\ \A o \in GetValue(TreeState, k) : PinsBalanced(o)
         /\ ~IsEmpty(TreeState) => \A o \in Begin(TreeState, k) : PinsBalanced(o)
         /\ \A o \in Remove(TreeState, k, TRUE) : PinsBalanced(o)
         /\ \A v \in TreeValues :
              \A o \in Insert(TreeState, k, v) : PinsBalanced(o)

\* an operation with outcome o that touched at least n pages returned with
\* its pins balanced
BalancedOver(o, n) ==
  /\ ~o.s.fault
  /\ PinsBalanced(o)
  /\ Cardinality({o.s.events[i].page : i \in
                    {j \in 1 .. Len(o.s.events) : o.s.events[j].ev \in {"Fetch", "New"}}})
       >= n

\* a tree left by a Remove on which an Insert is rejected as a duplicate, an
\* Insert splits a leaf under an internal root, and a Remove fetches the
\* leaf, its parent and its sibling, each with its pins balanced
C29_Witness ==
  /\ ~fault
  /\ last.op = "Remove"
  /\ \E k \in PresentKeys, v \in TreeValues :
       \E o \in Insert(TreeState, k, v) : ~o.r /\ BalancedOver(o, 2)
  /\ \E k \in Keys \ PresentKeys, v \in TreeValues :
       \E o \in Insert(TreeState, k, v) : o.r /\ BalancedOver(o, 4)
  /\ \E k \in PresentKeys :
       \E o \in Remove(TreeState, k, TRUE) : BalancedOver(o, 3)

\* the keys of page p in array order
KeysOf(p) == [i \in 1 .. GetSize(PageContent(p)) |-> PageContent(p).array[i].key]

\* C30: with leaf max_size 4, inserting the keys 1, 2, 3, 4, 5 in this order
\* into an empty tree produces exactly two leaves holding {1, 2} and
\* {3, 4, 5}, linked left to right, under a new root internal page with two
\* children and separator key 3.
C30_LeafSplitScenario ==
  (leaf_max_size = 4 /\ last.op = "Insert" /\ PresentKeys = 1 .. 5) =>
    /\ ~fault
    /\ Cardinality(TreePageSet) = 3
    /\ PageContent(root_page_id).page_type = "INTERNAL"
    /\ GetSize(PageContent(root_page_id)) = 2
    /\ KeyAt(PageContent(root_page_id), 1) = 3
    /\ LET left == ValueAt(PageContent(root_page_id), 0)
           right == ValueAt(PageContent(root_page_id), 1)
       IN  /\ left # right
           /\ IsLeafPage(PageContent(left)) /\ IsLeafPage(PageContent(right))
           /\ KeysOf(left) = <<1, 2>>
           /\ KeysOf(right) = <<3, 4, 5>>
           /\ PageContent(left).next_page_id = right
           /\ PageContent(right).next_page_id = INVALID_PAGE_ID
           /\ PageContent(left).parent_page_id = root_page_id
           /\ PageContent(right).parent_page_id = root_page_id

\* the scenario has run: 1 .. 5 were inserted in order and the last of the
\* inserts split the root leaf
C30_Witness ==
  /\ leaf_max_size = 4
  /\ last.op = "Insert" /\ last.ok
  /\ PresentKeys = 1 .. 5
  /\ root_page_id # INVALID_PAGE_ID
  /\ ~IsLeafPage(PageContent(root_page_id))

\* the elements of a finite set of integers in ascending order
Ascending(S) ==
  [i \in 1 .. Cardinality(S) |->
     CHOOSE x \in S : Cardinality({y \in S : y < x}) = i - 1]

\* the slots of the table whose tuple the plan's predicate accepts
Matching == {i \in 1 .. Len(exec.table) :
               exec.plan.pred.col = 0
               \/ exec.table[i].tuple[exec.plan.pred.col] = exec.plan.pred.val}

\* C33: the Next calls of a sequential scan return, in heap order and each
\* once, exactly the tuples the predicate accepts (all of them for the null
\* predicate), each with its record id, and false from then on.
C33_SeqScan ==
  exec.kind = "SeqScan" =>
    \A n \in 1 .. Len(exec.out) :
      IF n <= Cardinality(Matching)
        THEN /\ exec.out[n].ok
             /\ exec.out[n].rid = Ascending(Matching)[n]
             /\ exec.out[n].tuple = exec.table[Ascending(Matching)[n]].tuple
      ELSE ~exec.out[n].ok

\* a scan with a predicate that rejects a tuple has returned a tuple and
\* then false twice
C33_Witness ==
  /\ exec.kind = "SeqScan"
  /\ exec.plan.pred.col # 0
  /\ Cardinality(Matching) = 1 /\ Len(exec.table) = 2
  /\ Len(exec.out) = 3
  /\ exec.out[1].ok /\ ~exec.out[2].ok /\ ~exec.out[3].ok

\* C31: on a table without index the Insert and Delete executors work:
\* Init succeeds, and Next changes the table heap and touches no index.
C31_NoIndex ==
  (exec.kind \in {"Insert", "Delete"} /\ exec.nindexes = 0) =>
    /\ ~fault
    /\ exec.index_calls = <<>>
    /\ (exec.kind = "Delete" /\ exec.out # <<>>) =>
         \A i \in Matching : exec.table[i].deleted
    /\ (/\ exec.kind = "Insert" /\ exec.out # <<>> /\ exec.plan.raw
        /\ \A i \in 1 .. Len(exec.plan.raw_values) : exec.plan.raw_values[i].fits) =>
         Len(exec.table) >= Len(exec.original) + Len(exec.plan.raw_values)

\* C34: every tuple the Insert executor has put into the table heap, from
\* raw values or from its child, has one index entry whose key is the
\* tuple's index-key columns and whose value is the record id the heap gave
\* it; nothing else has an index entry.
C34_InsertIndexed ==
  (exec.kind = "Insert" /\ exec.nindexes = 1 /\ ~fault) =>
    /\ \A rid \in (Len(exec.original) + 1) .. Len(exec.table) :
         /\ Cardinality({i \in 1 .. Len(exec.index_calls) :
                           exec.index_calls[i].rid = rid}) = 1
         /\ \A i \in 1 .. Len(exec.index_calls) :
              exec.index_calls[i].rid = rid =>
                /\ exec.index_calls[i].op = "InsertEntry"
                /\ exec.index_calls[i].key
                     = KeyFromTuple(exec.table[rid].tuple, exec.key_attrs)
    /\ \A i \in 1 .. Len(exec.index_calls) :
         exec.index_calls[i].rid \in (Len(exec.original) + 1) .. Len(exec.table)

RECURSIVE SumOf(_, _)
\* the sum of column col over the slots S of the table
SumOf(S, col) ==
  IF S = {} THEN 0
  ELSE LET i == CHOOSE i \in S : TRUE
       IN  exec.table[i].tuple[col] + SumOf(S \ {i}, col)

\* the slots of the child's rows that belong to group g
GroupRows(g) ==
  {i \in Matching : (IF exec.plan.group_by THEN <<exec.table[i].tuple[1]>> ELSE <<>>) = g}

\* the rows the aggregation has to emit: one for each group of the child's
\* rows that passes HAVING, with count, sum, min and max over the group
ExpectedGroups ==
  {[group_bys |-> g,
    aggregates |->
      [count |-> Cardinality(GroupRows(g)),
       sum |-> SumOf(GroupRows(g), 2),
       min |-> CHOOSE v \in 1 .. MaxColumn :
                 /\ \E i \in GroupRows(g) : exec.table[i].tuple[2] = v
                 /\ \A i \in GroupRows(g) : exec.table[i].tuple[2] >= v,
       max |-> CHOOSE v \in 1 .. MaxColumn :
                 /\ \E i \in GroupRows(g) : exec.table[i].tuple[2] = v
                 /\ \A i \in GroupRows(g) : exec.table[i].tuple[2] <= v]]
     : g \in {h \in {<<>>} \cup {<<c>> : c \in 1 .. MaxColumn} :
                /\ GroupRows(h) # {}
                /\ exec.plan.having = 0
                   \/ SumOf(GroupRows(h), 2) >= exec.plan.having}}

\* C32: after Init the Next calls of the aggregation emit exactly one row
\* for each group that satisfies HAVING (every group without HAVING), each
\* computed over all child rows of the group, and then return false.
C32_Aggregation ==
  (exec.kind = "Aggregation" /\ exec.inited) =>
    \A n \in 1 .. Len(exec.out) :
      IF n <= Cardinality(ExpectedGroups)
        THEN /\ exec.out[n].ok
             /\ exec.out[n].tuple \in ExpectedGroups
             /\ \A m \in 1 .. (n - 1) : exec.out[m].tuple # exec.out[n].tuple
      ELSE ~exec.out[n].ok

\* an aggregation over two groups, one of which fails HAVING, has emitted
\* the other and then returned false
C32_Witness ==
  /\ exec.kind = "Aggregation" /\ exec.inited
  /\ exec.plan.group_by /\ exec.plan.having = 2
  /\ Len(exec.aht) = 2
  /\ Cardinality(ExpectedGroups) = 1
  /\ Len(exec.out) = 2
  /\ exec.out[1].ok /\ ~exec.out[2].ok

\* C35: when NewPage returns no frame while Insert creates the first root,
\* the sibling of a split or a new root, the out-of-memory exception is
\* thrown to the caller; the missing page is not latched or written.
C35_OutOfMemory ==
  ~fault =>
    \A k \in Keys, v \in TreeValues : \A o \in Insert(TreeState, k, v) :
      \A i \in 1 .. Len(o.s.events) :
        o.s.events[i].ev = "NewNull" =>
          i < Len(o.s.events) /\ o.s.events[i + 1].ev = "Throw"

\* the page p is borrowed after the first i calls of events: a FetchPage or
\* NewPage of it is not yet matched by an UnpinPage
Borrowed(events, i, p) ==
  Cardinality({j \in 1 .. i : events[j].ev \in {"Fetch", "New"}
                              /\ events[j].page = p})
    > Cardinality({j \in 1 .. i : events[j].ev = "Unpin" /\ events[j].page = p})

\* every write of the operation goes to a page it has borrowed
WritesBorrowed(events) ==
  \A i \in 1 .. Len(events) :
    events[i].ev = "Write" => Borrowed(events, i, events[i].page)

\* C36: Insert and Remove write the contents of a page only between the
\* FetchPage or NewPage that pinned it and the matching UnpinPage, never
\* after the operation has unpinned it.
C36_UsedWhileBorrowed ==
  ~fault =>
    \A k \in Keys :
      /\ \A o \in Remove(TreeState, k, TRUE) :
           ~o.s.fault => WritesBorrowed(o.s.events)
      /\ \A v \in TreeValues : \A o \in Insert(TreeState, k, v) :
           ~o.s.fault => WritesBorrowed(o.s.events)

\* the content of page p in the pool of s: its frame's, or the disk's
ContentIn(s, p) ==
  IF MapHas(s.b.page_table, p) THEN s.b.pages[s.b.page_table[p]].data
  ELSE s.b.disk[p]

\* the root page as a removal can leave it: as it is, or a leaf that lost its
\* entries, or an internal page that lost all children but child 0
RootsLeft(n) ==
  {n, [n EXCEPT !.array = IF IsLeafPage(n) \/ @ = <<>> THEN <<>> ELSE <<@[1]>>]}

\* AdjustRoot(old_root_node) with the root page pinned and left as n: the
\* outcome is [s, r, before], before being the state it was called in
AdjustRootOf(n) ==
  UNION {{[s |-> o.s, r |-> o.r, before |-> Put(f.s, f.r, n)]
            : o \in AdjustRoot(Put(f.s, f.r, n), f.r)}
           : f \in {g \in TFetchPage(TreeState, root_page_id) : ~g.s.fault}}

\* C37: AdjustRoot on an internal root of size 1 makes its only child the
\* root, with parent_page_id INVALID_PAGE_ID, and returns true; on a leaf
\* root of size 0 it makes the tree empty and returns true; otherwise it
\* returns false and changes neither the root nor any page.
C37_AdjustRoot ==
  (~fault /\ ~IsEmpty(TreeState)) =>
    \A n \in RootsLeft(PageContent(root_page_id)) : \A o \in AdjustRootOf(n) :
      ~o.s.fault =>
        IF ~IsLeafPage(n) /\ GetSize(n) = 1
          THEN /\ o.r
               /\ o.s.root = ValueAt(n, 0)
               /\ ContentIn(o.s, o.s.root).parent_page_id = INVALID_PAGE_ID
        ELSE IF IsLeafPage(n) /\ GetSize(n) = 0
          THEN o.r /\ IsEmpty(o.s)
        ELSE ~o.r /\ o.s.root = root_page_id /\ o.s.b = o.before.b

\* a Remove has collapsed the tree onto a leaf: the page left as the root is
\* a leaf that was created before other pages were
C37_Witness ==
  /\ ~fault /\ last.op = "Remove" /\ last.ok
  /\ root_page_id # INVALID_PAGE_ID
  /\ next_page_id > root_page_id + 2
  /\ IsLeafPage(PageContent(root_page_id))
  /\ PageContent(root_page_id).parent_page_id = INVALID_PAGE_ID
  /\ PresentKeys # {}

RECURSIVE PagesUnderIn(_, _, _)
\* the pages of the subtree of page p in the pool of s; fuel bounds the depth
PagesUnderIn(s, p, fuel) ==
  {p} \cup
    IF fuel = 0 \/ p \notin DOMAIN s.b.page_table
         \/ ContentIn(s, p).page_type # "INTERNAL" THEN {}
    ELSE UNION {PagesUnderIn(s, c, fuel - 1)
                  : c \in SeqToSet(Children(ContentIn(s, p).array))}

\* the keys stored in the leaves of the tree of s
StoredKeys(s) ==
  IF IsEmpty(s) THEN {}
  ELSE UNION {IF q \in DOMAIN s.b.page_table /\ IsLeafPage(ContentIn(s, q))
                THEN {ContentIn(s, q).array[i].key
                        : i \in 1 .. GetSize(ContentIn(s, q))}
              ELSE {} : q \in PagesUnderIn(s, s.root, s.b.next_page_id)}

\* the leaf FindLeafPage reaches for key in the current state
LeafFor(key) ==
  {PageIdOf(o.s, o.r) : o \in {f \in FindLeafPage(TreeState, key, FALSE, FALSE)
                                  : ~f.s.fault}}

\* the index in its parent of the sibling CoalesceOrRedistribute is to use
\* for page p: the left one, the right one for child 0
SiblingIndex(p) ==
  LET cur_index == ValueIndex(PageContent(PageContent(p).parent_page_id), p)
  IN  IF cur_index = 0 THEN 1 ELSE cur_index - 1

\* Remove(key) takes an entry from the non-root leaf p and leaves it underfull
Underflows(p, key) ==
  /\ IsLeafPage(PageContent(p)) /\ ~IsRootPage(PageContent(p))
  /\ PageContent(p).parent_page_id \in DOMAIN page_table
  /\ LeafLookup(PageContent(p), key) # Absent
  /\ GetSize(PageContent(p)) - 1 < GetMinSize(PageContent(p))

C39_NoOrphanPages ==
  ~fault =>
    \A k \in Keys : \A o \in Remove(TreeState, k, TRUE) :
      ~o.s.fault =>
        \A p \in TreePageSet :
          \/ ~IsEmpty(o.s) /\ p \in PagesUnderIn(o.s, o.s.root, o.s.b.next_page_id)
          \/ \E i \in 1 .. Len(o.s.events) :
               o.s.events[i].ev = "Delete" /\ o.s.events[i].page = p

\* the frame f holds a page
Resident(f) == pages[f].page_id # INVALID_PAGE_ID

\* a frame can be had: one is free, or one is resident and not pinned
FrameAvailable ==
  \/ free_list # <<>>
  \/ \E f \in DOMAIN pages : Resident(f) /\ pages[f].pin_count = 0

\* the call with outcome o returned a frame if one could be had, and
\* otherwise returned none and changed nothing
ServedOrUntouched(o) ==
  /\ FrameAvailable => o.frame # NoFrame
  /\ o.frame = NoFrame =>
       /\ \A f \in DOMAIN pages : Resident(f) /\ pages[f].pin_count > 0
       /\ o.s = Bpm

\* C40: FetchPage of a page that is not resident and NewPage return a frame
\* whenever free_list is non-empty or a resident frame has pin_count 0; they
\* return none only when every frame is resident and pinned, and then no
\* page id is allocated and page_table, free_list and the frames are unchanged.
C40_Availability ==
  /\ \A o \in NewPageImpl(Bpm) : ServedOrUntouched(o)
  /\ \A p \in PageIds \ MapKeys(page_table) :
       \A o \in FetchPageImpl(Bpm, p) : ServedOrUntouched(o)

\* NewPage has just returned none: no frame is free and every frame is pinned
C40_Witness ==
  /\ last.op = "new" /\ ~last.ok
  /\ free_list = <<>>
  /\ \A f \in DOMAIN pages : Resident(f) /\ pages[f].pin_count > 0

====
